---- MODULE Spec2Model ----
(***************************************************************************)
(* Audible-tab cache of the sound-tab-detector background page             *)
(* (src/unnamed/part_002): the insertion-ordered Map tabId -> record, the  *)
(* host event listeners that maintain it, the retention / eviction policy, *)
(* the popup ports it pushes snapshots to, and the popup commands whose    *)
(* promise continuations write to it.                                      *)
(***************************************************************************)
EXTENDS Integers, Sequences, FiniteSets, TLC

(* ------------------------------------------------------------------ *)
(* Bounds of the model                                                  *)
(* ------------------------------------------------------------------ *)

\* The clock advances in steps of Quantum milliseconds, MaxTick times at most.
MaxTick == 3

\* Number of popup commands that may be suspended on a host call at once.
MaxCmds == 1

\* Largest number of <audio>/<video> elements on a page the toggle script sees.
MaxMedia == 1

Quantum == 15 * 60 * 1000

Tabs == {"1", "2"}

Ports == {"p1", "p2"}

Titles == {"", "Song A"}

MediaStates == {"playing", "pausedMid", "pausedStart"}

\* Selectors of the button list that a page is described for, and the most
\* elements one selector matches.
MaxSelectors == 2

MaxButtons == 2

\* Most tabs that tabs.query({}) resolves with during a scan, and the
\* number of timeout periods that may pass between two scans.
MaxScanTabs == 6

MaxScanTicks == 2

\* Commands for one and the same tab that may be in flight at once.
MaxRacing == 2

\* The popup sends 'next' and 'prev'; the command table names 'previous'.
Directions == {"next", "prev", "previous"}

(* ------------------------------------------------------------------ *)
(* Program constants and JavaScript values                              *)
(* ------------------------------------------------------------------ *)

TAB_RETENTION_MS == 30 * 60 * 1000

\* A property that an object does not have reads as undefined.
Undefined == "undefined"

\* A lastActive that was never written: falsy in `lastActive || now`, and
\* NaN in `now - lastActive`, so that both comparisons with the window fail.
NoTime == 0

JsBool(b) == IF b THEN "true" ELSE "false"

\* a || b on strings: the empty string is falsy.
OrElse(a, b) == IF a # "" THEN a ELSE b

Url(t) == "https://site" \o t

VARIABLES
    now,             \* Date.now()
    host,            \* the browser's tabs: what tabs.get / tabs.query report
    audibleTabsMap,  \* the Map, as its entries in insertion order
    popupPorts,      \* the Set of connected popup ports
    cmds,            \* popup commands suspended on a host call
    scans,           \* tab enumerations not yet resolved (init, onStartup)
    everAudible,     \* history: tabs the host has had audible since start
    stoppedAt,       \* history: when the host reported a cached tab silent
    scope,           \* the part of the environment a specification explores
    content,         \* the content script: the page it sees, its skipTrack run
    scanner,         \* getAllMediaTabs: its cache and the scan in progress
    popup,           \* the popup's command buttons and their pending clicks
    last             \* history: the handler that ran last, what it returned,
                     \* the icon count it set, the message it posted and
                     \* the media elements its injected script found

vars == <<now, host, audibleTabsMap, popupPorts, cmds, scans, everAudible,
          stoppedAt, scope, content, scanner, popup, last>>

(* ------------------------------------------------------------------ *)
(* Map: insertion-ordered, set() replaces the value of an existing key  *)
(* ------------------------------------------------------------------ *)

MapHas(m, k) == \E i \in DOMAIN m : m[i].key = k

MapGet(m, k) == m[CHOOSE i \in DOMAIN m : m[i].key = k].val

MapSetAppend(m, k, v) == Append(m, [key |-> k, val |-> v])

MapSet(m, k, v) ==
    IF MapHas(m, k)
    THEN [i \in DOMAIN m |-> IF m[i].key = k THEN [key |-> k, val |-> v] ELSE m[i]]
    ELSE Append(m, [key |-> k, val |-> v])

MapDeleteInactiveOnly(m, k) ==
    SelectSeq(m, LAMBDA e : e.key # k \/ e.val.audible = "true")

MapDelete(m, k) == SelectSeq(m, LAMBDA e : e.key # k)

MapValues(m) == [i \in DOMAIN m |-> m[i].val]

MapKeys(m) == {m[i].key : i \in DOMAIN m}

(* ------------------------------------------------------------------ *)
(* The host's view of a tab                                             *)
(* ------------------------------------------------------------------ *)

NoTab == [st |-> "unborn", audible |-> FALSE, muted |-> FALSE, title |-> ""]

ClosedTab == [st |-> "closed", audible |-> FALSE, muted |-> FALSE, title |-> ""]

\* The tabs.Tab object the host hands to listeners and to tabs.get.
TabObject(t, h) ==
    [id |-> t, title |-> h.title, url |-> Url(t), audible |-> h.audible,
     muted |-> h.muted]

(* ------------------------------------------------------------------ *)
(* Retention                                                            *)
(* ------------------------------------------------------------------ *)

\* now - lastActive, where it is a number.
Age(rec, t) == t - rec.lastActive

ShouldEvictIgnoringAudible(rec, t) ==
    rec.lastActive # NoTime /\ Age(rec, t) >= TAB_RETENTION_MS

\* !tab.audible && (now - tab.lastActive) >= TAB_RETENTION_MS
ShouldEvict(rec, t) ==
    /\ rec.audible # "true"
    /\ rec.lastActive # NoTime
    /\ Age(rec, t) >= TAB_RETENTION_MS

cleanupOldTabs(m, t) == SelectSeq(m, LAMBDA e : ~ShouldEvict(e.val, t))

\* tab.audible || (Date.now() - tab.lastActive) < TAB_RETENTION_MS
Listed(rec, t) ==
    \/ rec.audible = "true"
    \/ rec.lastActive # NoTime /\ Age(rec, t) < TAB_RETENTION_MS

getAudibleTabsUnfiltered(m, t) == MapValues(m)

\* getAudibleTabs() returns this list and leaves the map cleaned up.
getAudibleTabs(m, t) ==
    SelectSeq(MapValues(cleanupOldTabs(m, t)), LAMBDA r : Listed(r, t))

(* ------------------------------------------------------------------ *)
(* upsertFromTab                                                        *)
(* ------------------------------------------------------------------ *)

FreshRecord(tab, t) ==
    [id |-> tab.id,
     title |-> OrElse(tab.title, OrElse(tab.url, "Tab " \o tab.id)),
     url |-> OrElse(tab.url, ""),
     audible |-> "true",
     muted |-> JsBool(tab.muted),
     lastActive |-> t]

MarkInactiveRestamp(rec, t) ==
    [rec EXCEPT !.audible = "false", !.lastActive = t]

\* existingTab.audible = false; existingTab.lastActive = existingTab.lastActive || now
MarkInactive(rec, t) ==
    [rec EXCEPT !.audible = "false",
                !.lastActive = IF rec.lastActive # NoTime THEN rec.lastActive ELSE t]

\* The map after the call and the value returned.
upsertFromTab(m, tab, t) ==
    IF tab.audible
    THEN [map |-> MapSet(m, tab.id, FreshRecord(tab, t)),
          res |-> IF MapHas(m, tab.id) THEN "updated" ELSE "added"]
    ELSE IF MapHas(m, tab.id)
         THEN [map |-> MapSet(m, tab.id, MarkInactive(MapGet(m, tab.id), t)),
               res |-> "updated"]
         ELSE [map |-> m, res |-> "false"]

\* tabs.forEach(t => upsertFromTab(t)) over the tabs a query returned.
RECURSIVE UpsertAll(_, _, _)
UpsertAll(m, tabSeq, t) ==
    IF tabSeq = <<>> THEN m
    ELSE UpsertAll(upsertFromTab(m, Head(tabSeq), t).map, Tail(tabSeq), t)

(* ------------------------------------------------------------------ *)
(* Popup ports                                                          *)
(* ------------------------------------------------------------------ *)

ConnectTabsNothing(m) == <<>>

\* The tabs of the message posted on connection: the raw map values.
ConnectTabs(m) ==
    [i \in DOMAIN m |->
        [rec |-> m[i].val, isPlaying |-> Undefined]]

\* The tabs of a pushed update: { ...tab, isPlaying: tab.audible }.
PushTabs(m) ==
    [i \in DOMAIN m |->
        [rec |-> m[i].val, isPlaying |-> m[i].val.audible]]

PushPortsKeepAll(ports, failing) == ports

\* pushUpdateToPopup: post to every port; a port whose postMessage throws
\* (those in failing) is dropped from the Set.
PushPorts(ports, failing) == ports \ failing

\* The order in which the Set is iterated.
PortOrder == <<"p1", "p2">>

\* The loop without its try/catch: the first throw ends it.
PostedUntilThrow(ports, failing) ==
    {PortOrder[i] : i \in {j \in DOMAIN PortOrder :
        /\ PortOrder[j] \in ports
        /\ \A k \in 1..j : PortOrder[k] \in ports => PortOrder[k] \notin failing}}

\* The ports whose postMessage returned: each post is in a try of its own,
\* so a throw skips that port only.
Posted(ports, failing) ==
    {PortOrder[i] : i \in {j \in DOMAIN PortOrder :
        PortOrder[j] \in ports /\ PortOrder[j] \notin failing}}

\* The message it builds, if any port is connected.
PushMessage(m, ports) == IF ports = {} THEN <<>> ELSE PushTabs(m)

\* updateIconForMediaTabs: the count it displays.
IconCount(m, t) == Len(getAudibleTabs(m, t))

(* ------------------------------------------------------------------ *)
(* Shared tails of the handlers                                         *)
(* ------------------------------------------------------------------ *)

NoIcon == 0 - 1

Ran(op, t, res, ic, posted, msg) ==
    [op |-> op, tab |-> t, res |-> res, icon |-> ic, posted |-> posted,
     msg |-> msg, threw |-> {}, media |-> <<>>]

\* The ports whose postMessage threw during the handler's push.
Threw(ports, failing) == ports \cap failing

RefreshAndPushUnevicted(m, failing, op, t, res) ==
    /\ audibleTabsMap' = cleanupOldTabs(m, now)
    /\ popupPorts' = PushPorts(popupPorts, failing)
    /\ last' = [Ran(op, t, res, IconCount(m, now), Posted(popupPorts, failing),
                       PushMessage(m, popupPorts))
                   EXCEPT !.threw = Threw(popupPorts, failing)]

\* if (changed) { updateIconForMediaTabs(); pushUpdateToPopup(); }
\* updateIconForMediaTabs reads getAudibleTabs(), which evicts first.
RefreshAndPush(m, failing, op, t, res) ==
    LET cleaned == cleanupOldTabs(m, now) IN
    /\ audibleTabsMap' = cleaned
    /\ popupPorts' = PushPorts(popupPorts, failing)
    /\ last' = [Ran(op, t, res, IconCount(m, now), Posted(popupPorts, failing),
                       PushMessage(cleaned, popupPorts))
                   EXCEPT !.threw = Threw(popupPorts, failing)]

\* pushUpdateToPopup() alone, as the command continuations call it.
PushOnly(m, failing, op, t, res) ==
    /\ audibleTabsMap' = m
    /\ popupPorts' = PushPorts(popupPorts, failing)
    /\ last' = [Ran(op, t, res, NoIcon, Posted(popupPorts, failing),
                       PushMessage(m, popupPorts))
                   EXCEPT !.threw = Threw(popupPorts, failing)]

\* updateIconForMediaTabs() alone.
RefreshOnly(m, op) ==
    /\ audibleTabsMap' = cleanupOldTabs(m, now)
    /\ popupPorts' = popupPorts
    /\ last' = Ran(op, "", "false", IconCount(m, now), {}, <<>>)

\* Neither: the handler refreshes no icon and posts nothing.
Quiet(m, op, t, res) ==
    /\ audibleTabsMap' = m
    /\ popupPorts' = popupPorts
    /\ last' = Ran(op, t, res, NoIcon, {}, <<>>)

\* History of what the host has reported.
HostMoves(h2) ==
    /\ host' = h2
    /\ everAudible' = everAudible \cup {t \in Tabs : h2[t].audible}

(* ------------------------------------------------------------------ *)
(* Content script: skipTrack(direction)                                 *)
(* ------------------------------------------------------------------ *)

\* What document.querySelectorAll(selector) gives for one selector: the
\* matched elements in document order, each visible or not, or a throw.
SelectorStates ==
    {[query |-> "throws", els |-> <<>>]} \cup
    {[query |-> "ok", els |-> els] :
        els \in UNION {[1..n -> {"hidden", "visible"}] : n \in 0..MaxButtons}}

\* navigator.mediaSession: not there; there without setActionHandler; there,
\* and handler registration and dispatch go through; there, and one throws.
SessionStates == {"absent", "noSetter", "works", "throws"}

\* A method of a player object.
MethodStates == {"absent", "ok", "throws"}

PlayerObjects ==
    [st : {"object"}, nextTrack : MethodStates, previousTrack : MethodStates]

NoPlayer(st) == [st |-> st, nextTrack |-> "absent", previousTrack |-> "absent"]

\* window.videojs: not there, getPlayers() throws, or one registered player.
VideoJsStates == {NoPlayer("absent"), NoPlayer("throws")} \cup PlayerObjects

\* A well-known global (window.player, ...): not there, or an object.
GlobalStates == {NoPlayer("absent")} \cup PlayerObjects

\* document, window, document.activeElement
KeyTargets == <<"document", "window", "activeElement">>

\* target.dispatchEvent(event) returns or throws (activeElement may be null).
KeyStates == [1..Len(KeyTargets) -> {"ok", "throws"}]

Pages ==
    [buttons : [1..MaxSelectors -> SelectorStates], session : SessionStates,
     videojs : VideoJsStates, global : GlobalStates, keys : KeyStates]

\* skipTrack.js: the selector lists, flattened, for a next and for a
\* previous request.
NextSelectors ==
    <<"button[title*=\"next\" i]", "button[aria-label*=\"next\" i]", ".next",
      ".next-button", ".skip-button", ".skip-forward",
      ".ytp-next-button", ".ytp-next-arrow", ".video-next-button",
      ".spoticon-skip-forward", ".skip-control__next", ".player-controls__next",
      "[data-testid=\"control-button-skip-forward\"]", "[data-testid=\"next\"]">>

PreviousSelectors ==
    <<"button[title*=\"previous\" i]", "button[aria-label*=\"previous\" i]",
      ".prev", ".previous", ".previous-button", ".skip-back",
      ".ytp-prev-button", ".ytp-prev-arrow", ".video-prev-button",
      ".spoticon-skip-back", ".skip-control__previous",
      ".player-controls__previous",
      "[data-testid=\"control-button-skip-back\"]", "[data-testid=\"previous\"]">>

\* isNext = direction === 'next'; isNext ? [...] : [...]
buttonSelectors(direction) ==
    IF direction = "next" THEN NextSelectors ELSE PreviousSelectors

\* The content script's table: commonButtonSelectors.next and .prev.
ContentNextSelectors ==
    <<".ytp-next-button", ".ytp-next-arrow", ".spoticon-skip-forward",
      "[data-testid=\"control-button-skip-forward\"]", "[data-testid=\"next\"]",
      "button[title*=\"next\" i]", "button[aria-label*=\"next\" i]", ".next",
      ".next-button", ".skip-forward">>

ContentPrevSelectors ==
    <<".ytp-prev-button", ".ytp-prev-arrow", ".spoticon-skip-back",
      "[data-testid=\"control-button-skip-back\"]", "[data-testid=\"previous\"]",
      "button[title*=\"previous\" i]", "button[aria-label*=\"previous\" i]",
      ".prev", ".previous", ".previous-button", ".skip-back">>

\* commonButtonSelectors[direction] || []
commonButtonSelectors(direction) ==
    IF direction = "next" THEN ContentNextSelectors
    ELSE IF direction = "prev" THEN ContentPrevSelectors
    ELSE <<>>

\* The selectors a page is described for: buttons[i] of a page is what the
\* i-th of these gives, for the next control and for the previous control
\* alike. Every other selector of the lists matches nothing.
DescribedSelectors ==
    << <<"button[title*=\"next\" i]", "button[title*=\"previous\" i]">>,
       <<".ytp-next-button", ".ytp-prev-button">>,
       <<".spoticon-skip-forward", ".spoticon-skip-back">>,
       <<"[data-testid=\"next\"]", "[data-testid=\"previous\"]">> >>

MatchesNothing == [query |-> "ok", els |-> <<>>]

\* document.querySelectorAll(selector) on a page.
querySelectorAll(page, selector) ==
    LET hits == {i \in DOMAIN page.buttons \cap DOMAIN DescribedSelectors :
                    \E d \in DOMAIN DescribedSelectors[i] :
                        DescribedSelectors[i][d] = selector}
    IN IF hits = {} THEN MatchesNothing
       ELSE page.buttons[CHOOSE i \in hits : TRUE]

\* What the button loop meets, selector by selector.
Queries(page, selectors) ==
    [k \in DOMAIN selectors |-> querySelectorAll(page, selectors[k])]

\* Before the content script is injected: no page, no run.
NoPage ==
    [buttons |-> <<>>, session |-> "absent", videojs |-> NoPlayer("absent"),
     global |-> NoPlayer("absent"), keys |-> <<>>]

NoResult ==
    [success |-> FALSE, method |-> Undefined, error |-> Undefined,
     methodsTried |-> <<>>]

\* A run of skipTrack: whether it has returned or thrown, what it returned,
\* and what it did on the way - the strategies it entered, the elements it
\* clicked, the player methods it called, the targets it dispatched the key
\* event to.
Run(dir, st, result, tried, clicked, calls, dispatched) ==
    [dir |-> dir, st |-> st, result |-> result, tried |-> tried,
     clicked |-> clicked, calls |-> calls, dispatched |-> dispatched]

NotRun == Run("", "idle", NoResult, <<>>, <<>>, <<>>, {})

\* A run of the button loop of the content script's own skipTrack.
Loop(dir, outcome, clicked) ==
    [dir |-> dir, outcome |-> outcome, clicked |-> clicked]

NoLoop == Loop("", "idle", <<>>)

IdleContent == [page |-> NoPage, run |-> NotRun, loop |-> NoLoop]

Strategies == <<"button-click", "media-session", "player-api", "keyboard-events">>

\* { success: true, method }
Success(method) ==
    [success |-> TRUE, method |-> method, error |-> Undefined,
     methodsTried |-> <<>>]

\* { success: false, error, methodsTried }
NotFound ==
    [success |-> FALSE, method |-> Undefined,
     error |-> "No supported track skipping method found on this page",
     methodsTried |-> Strategies]

FirstMatch(els) == IF els # <<>> THEN 1 ELSE 0

\* buttons.find(btn => visible(btn)): the index of the first visible one, 0 if none.
FirstVisible(els) ==
    IF \E i \in DOMAIN els : els[i] = "visible"
    THEN CHOOSE i \in DOMAIN els :
            els[i] = "visible" /\ \A j \in 1..(i - 1) : els[j] # "visible"
    ELSE 0

\* for (const selector of buttonSelectors) { ... } from selector i on: the
\* loop is not inside a try, so a throw leaves skipTrack.
RECURSIVE ButtonProbe(_, _)
ButtonProbe(sels, i) ==
    IF i > Len(sels) THEN [outcome |-> "nothing", clicked |-> <<>>]
    ELSE IF sels[i].query = "throws" THEN [outcome |-> "throw", clicked |-> <<>>]
    ELSE IF FirstVisible(sels[i].els) # 0
         THEN [outcome |-> "found",
               clicked |-> <<<<i, FirstVisible(sels[i].els)>>>>]
         ELSE ButtonProbe(sels, i + 1)

\* if ('mediaSession' in navigator) { try { ... } catch { } }
SessionProbe(session) ==
    IF session = "works" THEN "found" ELSE "nothing"

\* The handler the probe installs replaces the page's own, whether or not
\* the dispatch that follows throws.
SessionHandlerReplaced(session) == session \in {"works", "throws"}

IsFunction(method) == method # "absent"

\* players: the video.js instances, then the globals that have a nextTrack
\* function (whatever the direction).
PlayersFound(page) ==
    (IF page.videojs.st = "object" THEN <<page.videojs>> ELSE <<>>) \o
    (IF page.global.st = "object" /\ IsFunction(page.global.nextTrack)
     THEN <<page.global>> ELSE <<>>)

PlayerMethod(player, dir) ==
    IF dir = "next" THEN player.nextTrack ELSE player.previousTrack

\* for (const player of players) { try { ... } catch { } }: the calls made,
\* ending with the first that returns.
RECURSIVE PlayerCalls(_, _)
PlayerCalls(players, dir) ==
    IF players = <<>> THEN <<>>
    ELSE LET mth == PlayerMethod(Head(players), dir) IN
         IF mth = "ok" THEN <<mth>>
         ELSE IF mth = "throws" THEN <<mth>> \o PlayerCalls(Tail(players), dir)
         ELSE PlayerCalls(Tail(players), dir)

PlayerProbe(page, dir) ==
    IF page.videojs.st = "throws" THEN [outcome |-> "nothing", calls |-> <<>>]
    ELSE LET calls == PlayerCalls(PlayersFound(page), dir) IN
         [outcome |-> IF calls # <<>> /\ calls[Len(calls)] = "ok"
                      THEN "found" ELSE "nothing",
          calls |-> calls]

\* for (const target of targets) { try { target.dispatchEvent(event) ... } }:
\* the targets dispatchEvent was called on.
KeysReached(keys) == DOMAIN keys

\* success = true for a dispatch that returned.
KeyProbe(keys) ==
    [outcome |-> IF \E i \in KeysReached(keys) : keys[i] = "ok"
                 THEN "found" ELSE "nothing",
     dispatched |-> KeysReached(keys)]

\* Strategies 2 to 4, entered when the button loop ended without a find.
skipTrackAfterButtons(page, dir) ==
    LET s == SessionProbe(page.session)
        p == PlayerProbe(page, dir)
        k == KeyProbe(page.keys)
    IN IF s = "found"
       THEN Run(dir, "returned", Success("media-session"), SubSeq(Strategies, 1, 2),
                <<>>, <<>>, {})
       ELSE IF p.outcome = "found"
       THEN Run(dir, "returned",
                Success(IF dir = "next" THEN "player-api-next" ELSE "player-api-prev"),
                SubSeq(Strategies, 1, 3), <<>>, p.calls, {})
       ELSE IF k.outcome = "found"
       THEN Run(dir, "returned", Success("keyboard-events"), Strategies, <<>>,
                p.calls, k.dispatched)
       ELSE Run(dir, "returned", NotFound, Strategies, <<>>, p.calls, k.dispatched)

skipTrack(page, dir) ==
    LET b == ButtonProbe(Queries(page, buttonSelectors(dir)), 1) IN
    IF b.outcome = "found"
    THEN Run(dir, "returned", Success("button-click"), SubSeq(Strategies, 1, 1),
             b.clicked, <<>>, {})
    ELSE IF b.outcome = "throw"
    THEN Run(dir, "threw", NoResult, SubSeq(Strategies, 1, 1), b.clicked, <<>>, {})
    ELSE skipTrackAfterButtons(page, dir)

\* Whose nexttrack / previoustrack action handler the media session holds
\* after a run: the page's own, or the empty one the probe registered.
HandlerAfter(page, run) ==
    IF Len(run.tried) >= 2 /\ SessionHandlerReplaced(page.session)
    THEN "skipTrack" ELSE "page"

\* The content script is asked to skip on the page it runs in.
RunSkipTrack(dir) ==
    /\ content.page \in Pages
    /\ content.run = NotRun
    /\ content.loop = NoLoop
    /\ content' = [content EXCEPT !.run = skipTrack(content.page, dir)]
    /\ UNCHANGED <<now, host, audibleTabsMap, popupPorts, cmds, scans,
                   everAudible, stoppedAt, scope, scanner, popup, last>>

\* The first button loop of the skipTrack the content script defines: the
\* same loop over commonButtonSelectors[direction] || [].
contentButtonLoop(page, dir) ==
    LET b == ButtonProbe(Queries(page, commonButtonSelectors(dir)), 1) IN
    Loop(dir, b.outcome, b.clicked)

RunContentButtonLoop(dir) ==
    /\ content.page \in Pages
    /\ content.run = NotRun
    /\ content.loop = NoLoop
    /\ content' = [content EXCEPT !.loop = contentButtonLoop(content.page, dir)]
    /\ UNCHANGED <<now, host, audibleTabsMap, popupPorts, cmds, scans,
                   everAudible, stoppedAt, scope, scanner, popup, last>>

(* ------------------------------------------------------------------ *)
(* Host-wide scan: getAllMediaTabs (src/unnamed/part_001)               *)
(* ------------------------------------------------------------------ *)

SCAN_COOLDOWN == 10000

batchSize == 5

\* setTimeout(() => reject(new Error('Tab timeout')), 5000)
TabTimeout == 5000

\* What executeScript of the probe does in a tab: it resolves with
\* hasMedia true, resolves with hasMedia false, rejects, or never settles.
ProbeStates == {"media", "none", "rejects", "hangs"}

\* A tab of the answer of tabs.query({}): whether its url is http(s),
\* whether the host reports it audible, and what a probe of it does. A tab
\* that is never probed is described with "none".
ScanTabs ==
    {tab \in [web : BOOLEAN, audible : BOOLEAN, probe : ProbeStates] :
        (~tab.web \/ tab.audible) => tab.probe = "none"}

\* tabs: what tabs.query({}) resolves with, a tab's id being its place;
\* globalMediaTabs, lastScanTime: the cache; the rest is the call in
\* progress and what it returned (tab ids).
IdleScanner ==
    [tabs |-> <<>>, globalMediaTabs |-> <<>>, lastScanTime |-> 0, pc |-> "idle",
     webTabs |-> <<>>, i |-> 0, mediaTabs |-> <<>>, result |-> <<>>,
     from |-> "none"]

\* allTabs.filter(tab => tab.url && (http:// or https://))
WebTabs(tabs) == SelectSeq([k \in DOMAIN tabs |-> k], LAMBDA id : tabs[id].web)

\* The promise of one tab of a batch: whether it fulfils with the tab
\* (TRUE) or with null. It never rejects: the body is inside a try.
TabIncluded(tab) ==
    IF tab.audible THEN TRUE
    ELSE IF tab.probe = "media" THEN TRUE
    ELSE IF tab.probe = "none" THEN FALSE
    ELSE tab.audible

\* The probe of the tab ends in its catch: executeScript rejected, or the
\* timer won the race.
ProbeFails(tab) == ~tab.audible /\ tab.probe \in {"rejects", "hangs"}

BatchValuesAllOrNothing(tabs, batch) ==
    IF \E k \in DOMAIN batch : ProbeFails(tabs[batch[k]]) THEN <<>>
    ELSE SelectSeq(batch, LAMBDA id : TabIncluded(tabs[id]))

\* Promise.allSettled(batchPromises), then the fulfilled non-null values.
BatchValues(tabs, batch) == SelectSeq(batch, LAMBDA id : TabIncluded(tabs[id]))

\* A probe of the batch never settles: the batch waits for its timer.
BatchHangs(tabs, batch) ==
    \E k \in DOMAIN batch :
        ~tabs[batch[k]].audible /\ tabs[batch[k]].probe = "hangs"

Min(a, b) == IF a <= b THEN a ELSE b

\* webTabs.slice(i, i + batchSize)
Batch(webTabs, i) == SubSeq(webTabs, i + 1, Min(i + batchSize, Len(webTabs)))

\* return ...: the call is over.
Returned(sc, result, from) ==
    [sc EXCEPT !.pc = "returned", !.result = result, !.from = from,
               !.webTabs = <<>>, !.i = 0, !.mediaTabs = <<>>]

\* globalMediaTabs = mediaTabs; lastScanTime = Date.now(); return mediaTabs
Scanned(sc, mediaTabs, t) ==
    [Returned(sc, mediaTabs, "scan") EXCEPT !.globalMediaTabs = mediaTabs,
                                            !.lastScanTime = t]

\* getAllMediaTabs() is called: the cached list, or a scan begins. Calls
\* are followed for MaxScanTicks timeout periods after the page loaded.
CallGetAllMediaTabs ==
    /\ scanner.pc \in {"idle", "returned"}
    /\ now - Quantum <= MaxScanTicks * TabTimeout
    /\ scanner' =
          IF /\ Len(scanner.globalMediaTabs) > 0
             /\ now - scanner.lastScanTime < SCAN_COOLDOWN
          THEN Returned(scanner, scanner.globalMediaTabs, "cache")
          ELSE [scanner EXCEPT !.pc = "query", !.result = <<>>, !.from = "none"]
    /\ UNCHANGED <<now, host, audibleTabsMap, popupPorts, cmds, scans,
                   everAudible, stoppedAt, scope, content, popup, last>>

\* await browser.tabs.query({}) resolved; with no web tab the loop is not
\* entered and the call returns at once.
ScanQueryResolved ==
    /\ scanner.pc = "query"
    /\ LET webTabs == WebTabs(scanner.tabs) IN
       scanner' =
          IF webTabs = <<>> THEN Scanned(scanner, <<>>, now)
          ELSE [scanner EXCEPT !.pc = "batch", !.webTabs = webTabs, !.i = 0,
                               !.mediaTabs = <<>>]
    /\ UNCHANGED <<now, host, audibleTabsMap, popupPorts, cmds, scans,
                   everAudible, stoppedAt, scope, content, popup, last>>

\* await browser.tabs.query({}) rejected: catch (error) { return []; }
ScanQueryRejected ==
    /\ scanner.pc = "query"
    /\ scanner' = Returned(scanner, <<>>, "error")
    /\ UNCHANGED <<now, host, audibleTabsMap, popupPorts, cmds, scans,
                   everAudible, stoppedAt, scope, content, popup, last>>

\* await Promise.allSettled(batchPromises) resumed: every promise of the
\* batch has settled, the hung ones when their timers fired. After the last
\* batch the cache is written and the call returns.
ScanBatchSettled ==
    /\ scanner.pc = "batch"
    /\ LET batch == Batch(scanner.webTabs, scanner.i)
           found == scanner.mediaTabs \o BatchValues(scanner.tabs, batch)
           t == IF BatchHangs(scanner.tabs, batch) THEN now + TabTimeout
                ELSE now
       IN /\ now' = t
          /\ scanner' =
                IF scanner.i + batchSize < Len(scanner.webTabs)
                THEN [scanner EXCEPT !.i = scanner.i + batchSize,
                                     !.mediaTabs = found]
                ELSE Scanned(scanner, found, t)
    /\ UNCHANGED <<host, audibleTabsMap, popupPorts, cmds, scans,
                   everAudible, stoppedAt, scope, content, popup, last>>

\* Time passes between two calls.
ScanTick ==
    /\ scanner.pc \in {"idle", "returned"}
    /\ now - Quantum < MaxScanTicks * TabTimeout
    /\ now' = now + TabTimeout
    /\ UNCHANGED <<host, audibleTabsMap, popupPorts, cmds, scans, everAudible,
                   stoppedAt, scope, content, scanner, popup, last>>

(* ------------------------------------------------------------------ *)
(* Popup: the command buttons of a tab item (src/unnamed/part_003)      *)
(* ------------------------------------------------------------------ *)

Buttons == {"prev", "pause", "next", "mute"}

SkipButtons == {"prev", "next"}

\* What runtime.sendMessage of a command settles with: { success: true }
\* with isPlaying / isMuted true or false, { success: false }, undefined,
\* or a rejection.
Replies == {"on", "off", "failure", "undefined", "rejects"}

\* The label a button is rendered with, and gets back after a skip.
Glyph(b) == IF b = "prev" THEN "previous-glyph" ELSE "next-glyph"

\* The text on success: the state the answer reports.
Label(b, flag) ==
    IF b = "pause" THEN (IF flag THEN "Pause" ELSE "Play")
    ELSE IF b = "mute" THEN (IF flag THEN "Unmute" ELSE "Mute")
    ELSE Glyph(b)

Loading(b) == IF b \in SkipButtons THEN "hourglass" ELSE "hourglass Loading..."

ErrorText(b) == IF b \in SkipButtons THEN "cross" ELSE "cross Error"

Button(disabled, text, pc) == [disabled |-> disabled, text |-> text, pc |-> pc]

\* renderTabs for one tab: four enabled buttons.
Rendered(isPlaying, muted) ==
    [b \in Buttons |->
        Button(FALSE, Label(b, IF b = "pause" THEN isPlaying ELSE muted), "idle")]

\* The popup showing a playing, unmuted tab, nothing clicked.
IdlePopup == [btn |-> Rendered(TRUE, FALSE)]

\* The click listener calls toggleTabPlayPause / skipTrack / toggleTabMute:
\* the button is disabled, shows the loading text, and the command is sent.
\* A disabled button receives no click. answered: whether the background
\* will ever settle this message.
Click(b, answered) ==
    /\ ~popup.btn[b].disabled
    /\ popup' = [popup EXCEPT !.btn[b] =
                    Button(TRUE, Loading(b),
                           IF answered THEN "awaiting" ELSE "unanswered")]
    /\ UNCHANGED <<now, host, audibleTabsMap, popupPorts, cmds, scans,
                   everAudible, stoppedAt, scope, content, scanner, last>>

\* if (result.success) ... else ...; catch for a rejection and for the
\* TypeError of reading undefined.success.
TextAfter(b, reply) ==
    IF reply = "on" THEN Label(b, TRUE)
    ELSE IF reply = "off" THEN Label(b, FALSE)
    ELSE ErrorText(b)

\* The timer's callback: skipTrack's also restores the glyph.
TextAfterTimer(b, text) == IF b \in SkipButtons THEN Glyph(b) ELSE text

\* await browser.runtime.sendMessage(...) settled: the text is set and
\* finally arms the 1000 ms timer.
Answered(b, reply) ==
    /\ popup.btn[b].pc = "awaiting"
    /\ popup' = [popup EXCEPT !.btn[b] = Button(TRUE, TextAfter(b, reply), "timer")]
    /\ UNCHANGED <<now, host, audibleTabsMap, popupPorts, cmds, scans,
                   everAudible, stoppedAt, scope, content, scanner, last>>

\* setTimeout(() => { button.disabled = false; ... }, 1000) fires.
TimerFires(b) ==
    /\ popup.btn[b].pc = "timer"
    /\ popup' = [popup EXCEPT !.btn[b] =
                    Button(FALSE, TextAfterTimer(b, popup.btn[b].text), "idle")]
    /\ UNCHANGED <<now, host, audibleTabsMap, popupPorts, cmds, scans,
                   everAudible, stoppedAt, scope, content, scanner, last>>

(* ------------------------------------------------------------------ *)
(* Initial state                                                        *)
(* ------------------------------------------------------------------ *)

IdleCmd == [kind |-> "none", tab |-> "", pc |-> "idle", arg |-> FALSE]

\* A scope names the tabs that may exist, the titles a tab may be born with,
\* the titles a page may change to, the ports a popup may open and the
\* number of commands that may be in flight.
Scope(tabs, born, titles, ports) ==
    [tabs |-> tabs, born |-> born, titles |-> titles, ports |-> ports,
     slots |-> MaxCmds]

\* One tab with everything that can happen to it, one popup.
OneTab == Scope({"1"}, Titles, Titles, {"p1"})

\* One tab, born untitled, whose page may title itself; two popups.
TwoPopups == Scope({"1"}, {""}, {"Song A"}, Ports)

\* One untitled tab, one popup, and MaxRacing command slots for the tab.
RacingCommands == [Scope({"1"}, {""}, {""}, {"p1"}) EXCEPT !.slots = MaxRacing]

\* Two tabs, untitled when created, whose pages may title themselves; no
\* port.
LegacyTabs == Scope(Tabs, {""}, {"Song A"}, {})

\* Two untitled tabs, no popup, and a command slot for each tab.
TwoTabs == [Scope(Tabs, {""}, {""}, {}) EXCEPT !.slots = Cardinality(Tabs)]

HostTabStates(sc, t) ==
    IF t \notin sc.tabs THEN {NoTab}
    ELSE {NoTab} \cup
         {[st |-> "open", audible |-> a, muted |-> FALSE, title |-> ti] :
             a \in BOOLEAN, ti \in sc.born}

InitIn(sc) ==
    /\ scope = sc
    /\ now = Quantum
    /\ host \in [Tabs -> UNION {HostTabStates(sc, t) : t \in Tabs}]
    /\ \A t \in Tabs : host[t] \in HostTabStates(sc, t)
    /\ audibleTabsMap = <<>>
    /\ popupPorts = {}
    /\ cmds = [c \in 1..sc.slots |-> IdleCmd]
    /\ scans = {"init", "onStartup"}
    /\ everAudible = {t \in Tabs : host[t].audible}
    /\ stoppedAt = [t \in Tabs |-> NoTime]
    /\ content = IdleContent
    /\ scanner = IdleScanner
    /\ popup = IdlePopup
    /\ last = Ran("load", "", "false", NoIcon, {}, <<>>)

Init == InitIn(OneTab)

(* ------------------------------------------------------------------ *)
(* Clock, timers, scans                                                 *)
(* ------------------------------------------------------------------ *)

\* The enumerations of init() and onStartup resolve, if at all, within the
\* first quantum after the background page loads.
Tick ==
    /\ now < MaxTick * Quantum
    /\ now' = now + Quantum
    /\ scans' = {}
    /\ Quiet(audibleTabsMap, "tick", "", "false")
    /\ UNCHANGED <<host, cmds, everAudible, stoppedAt,
                   scope, scanner, popup, content>>

\* setInterval(cleanupOldTabs, 5 * 60 * 1000)
CleanupTimer ==
    /\ Quiet(cleanupOldTabs(audibleTabsMap, now), "cleanupOldTabs", "",
             IF cleanupOldTabs(audibleTabsMap, now) # audibleTabsMap
             THEN "evicted" ELSE "false")
    /\ UNCHANGED <<now, host, cmds, scans, everAudible, stoppedAt,
                   scope, scanner, popup, content>>

TabOrder == <<"1", "2">>

\* What tabs.query({}) resolves with.
OpenTabsInOrder ==
    SelectSeq([i \in DOMAIN TabOrder |-> TabObject(TabOrder[i], host[TabOrder[i]])],
              LAMBDA tab : host[tab.id].st = "open")

\* init() and the runtime.onStartup listener: query all tabs, upsert each,
\* refresh the icon.
Scan(which) ==
    /\ which \in scans
    /\ scans' = scans \ {which}
    /\ RefreshOnly(UpsertAll(audibleTabsMap, OpenTabsInOrder, now), which)
    /\ UNCHANGED <<now, host, cmds, everAudible, stoppedAt,
                   scope, scanner, popup, content>>

\* windows.onCreated -> updateIconForMediaTabs
WindowCreated ==
    /\ RefreshOnly(audibleTabsMap, "windows.onCreated")
    /\ UNCHANGED <<now, host, cmds, scans, everAudible, stoppedAt,
                   scope, scanner, popup, content>>

(* ------------------------------------------------------------------ *)
(* Host tab events                                                      *)
(* ------------------------------------------------------------------ *)

\* tabs.onCreated
TabCreated(t, a, ti, failing) ==
    /\ host[t].st = "unborn"
    /\ LET h2 == [host EXCEPT ![t] =
                    [st |-> "open", audible |-> a, muted |-> FALSE, title |-> ti]]
           up == upsertFromTab(audibleTabsMap, TabObject(t, h2[t]), now)
       IN /\ HostMoves(h2)
          /\ IF up.res # "false"
             THEN RefreshAndPush(up.map, failing, "tabs.onCreated", t, up.res)
             ELSE /\ failing = {}
                  /\ Quiet(up.map, "tabs.onCreated", t, up.res)
    /\ UNCHANGED <<now, cmds, scans, stoppedAt, scope, scanner, popup, content>>

\* tabs.onUpdated with changeInfo.audible set
TabAudibleChanged(t, failing) ==
    /\ host[t].st = "open"
    /\ LET h2 == [host EXCEPT ![t].audible = ~host[t].audible]
           up == upsertFromTab(audibleTabsMap, TabObject(t, h2[t]), now)
       IN /\ HostMoves(h2)
          /\ stoppedAt' = [stoppedAt EXCEPT ![t] =
                IF ~h2[t].audible /\ up.res = "updated" THEN now ELSE NoTime]
          /\ IF up.res # "false"
             THEN RefreshAndPush(up.map, failing, "tabs.onUpdated", t, up.res)
             ELSE /\ failing = {}
                  /\ Quiet(up.map, "tabs.onUpdated", t, up.res)
    /\ UNCHANGED <<now, cmds, scans, scope, scanner, popup, content>>

MetaUpdateRestamping(m, tab, prop) ==
    IF ~MapHas(m, tab.id) THEN m
    ELSE LET e == [MapGet(m, tab.id) EXCEPT !.lastActive = now] IN
         MapSet(m, tab.id,
            IF prop = "title" THEN [e EXCEPT !.title = OrElse(tab.title, e.title)]
            ELSE IF prop = "url" THEN [e EXCEPT !.url = OrElse(tab.url, e.url)]
            ELSE [e EXCEPT !.muted = JsBool(tab.muted)])

\* The else-branch of tabs.onUpdated: reflect metadata into an existing entry.
MetaUpdate(m, tab, prop) ==
    IF ~MapHas(m, tab.id) THEN m
    ELSE LET e == MapGet(m, tab.id) IN
         MapSet(m, tab.id,
            IF prop = "title" THEN [e EXCEPT !.title = OrElse(tab.title, e.title)]
            ELSE IF prop = "url" THEN [e EXCEPT !.url = OrElse(tab.url, e.url)]
            ELSE [e EXCEPT !.muted = JsBool(tab.muted)])

OnUpdatedMeta(h2, t, prop, failing) ==
    LET m2 == MetaUpdate(audibleTabsMap, TabObject(t, h2[t]), prop) IN
    IF m2 # audibleTabsMap
    THEN RefreshAndPush(m2, failing, "tabs.onUpdated", t, "meta")
    ELSE /\ failing = {}
         /\ Quiet(m2, "tabs.onUpdated", t, "false")

\* tabs.onUpdated with changeInfo.title set
TabTitleChanged(t, ti, failing) ==
    /\ host[t].st = "open"
    /\ ti # host[t].title
    /\ LET h2 == [host EXCEPT ![t].title = ti]
       IN /\ HostMoves(h2)
          /\ OnUpdatedMeta(h2, t, "title", failing)
    /\ UNCHANGED <<now, cmds, scans, stoppedAt, scope, scanner, popup, content>>

\* tabs.onUpdated with changeInfo.mutedInfo set (the user muted the tab)
TabMutedChanged(t, failing) ==
    /\ host[t].st = "open"
    /\ LET h2 == [host EXCEPT ![t].muted = ~host[t].muted]
       IN /\ HostMoves(h2)
          /\ OnUpdatedMeta(h2, t, "mutedInfo", failing)
    /\ UNCHANGED <<now, cmds, scans, stoppedAt, scope, scanner, popup, content>>

\* tabs.onRemoved
TabRemoved(t, failing) ==
    /\ host[t].st = "open"
    /\ HostMoves([host EXCEPT ![t] = ClosedTab])
    /\ stoppedAt' = [stoppedAt EXCEPT ![t] = NoTime]
    /\ IF MapHas(audibleTabsMap, t)
       THEN RefreshAndPush(MapDelete(audibleTabsMap, t), failing,
                           "tabs.onRemoved", t, "true")
       ELSE /\ failing = {}
            /\ Quiet(audibleTabsMap, "tabs.onRemoved", t, "false")
    /\ UNCHANGED <<now, cmds, scans, scope, scanner, popup, content>>

(* ------------------------------------------------------------------ *)
(* Popup connection                                                     *)
(* ------------------------------------------------------------------ *)

\* runtime.onConnect for a port named 'popup'
PopupConnect(p) ==
    /\ p \notin popupPorts
    /\ popupPorts' = popupPorts \cup {p}
    /\ audibleTabsMap' = audibleTabsMap
    /\ last' = Ran("runtime.onConnect", "", "false", NoIcon, {p},
                   ConnectTabs(audibleTabsMap))
    /\ UNCHANGED <<now, host, cmds, scans, everAudible, stoppedAt,
                   scope, scanner, popup, content>>

\* port.onDisconnect
PopupDisconnect(p) ==
    /\ p \in popupPorts
    /\ popupPorts' = popupPorts \ {p}
    /\ audibleTabsMap' = audibleTabsMap
    /\ last' = Ran("port.onDisconnect", "", "false", NoIcon, {}, <<>>)
    /\ UNCHANGED <<now, host, cmds, scans, everAudible, stoppedAt,
                   scope, scanner, popup, content>>

(* ------------------------------------------------------------------ *)
(* Command: get_media_tabs                                              *)
(* ------------------------------------------------------------------ *)

GetMediaTabsReply(m, t) ==
    LET live == getAudibleTabs(m, t) IN
    [i \in DOMAIN live |->
        [id |-> live[i].id, title |-> live[i].title, url |-> live[i].url,
         audible |-> "true", muted |-> live[i].muted, isPlaying |-> "true",
         isPaused |-> "false", mediaCount |-> 1]]

GetMediaTabs ==
    /\ audibleTabsMap' = cleanupOldTabs(audibleTabsMap, now)
    /\ popupPorts' = popupPorts
    /\ last' = Ran("get_media_tabs", "", "reply", NoIcon, {},
                   GetMediaTabsReply(audibleTabsMap, now))
    /\ UNCHANGED <<now, host, cmds, scans, everAudible, stoppedAt,
                   scope, scanner, popup, content>>

(* ------------------------------------------------------------------ *)
(* Command: toggle_play_pause (the first handler of the listener)       *)
(* ------------------------------------------------------------------ *)

Start(c, kind, t, pc) ==
    /\ cmds[c] = IdleCmd
    /\ cmds' = [cmds EXCEPT ![c] = [kind |-> kind, tab |-> t, pc |-> pc,
                                    arg |-> FALSE]]

Finish(c) == cmds' = [cmds EXCEPT ![c] = IdleCmd]

Goto(c, pc) == cmds' = [cmds EXCEPT ![c].pc = pc]

At(c, kind, pc) == cmds[c].kind = kind /\ cmds[c].pc = pc

\* Pages the injected script may find: the states of its media elements.
MediaConfigs == UNION {[1..n -> MediaStates] : n \in 0..MaxMedia}

\* The injected script: foundPlaying, and the isPlaying it returns.
FoundPlaying(media) ==
    \/ \E i \in DOMAIN media : media[i] \in {"playing", "pausedMid"}
    \/ Len(media) > 0

ScriptIsPlaying(media) == ~FoundPlaying(media)

\* The script of the second toggle_play_pause block: foundPlaying is set
\* for an element that was playing only; it returns 'paused' or 'playing',
\* and the block answers isPlaying: newState === 'playing'.
LaterScriptIsPlaying(media) == ~(\E i \in DOMAIN media : media[i] = "playing")

\* The if-blocks of the runtime.onMessage listener in source order, by the
\* command each tests for. Every block returns.
Handlers ==
    <<"toggle_play_pause", "skip_track", "get_media_tabs", "toggle_play_pause",
      "toggle_mute">>

\* The block that serves a command: the first whose test it passes.
Serving(command) ==
    CHOOSE i \in DOMAIN Handlers :
        Handlers[i] = command /\ \A j \in 1..(i - 1) : Handlers[j] # command

\* The first block of the listener.
FirstBlock == 1

TouchEvery(m, t, time) ==
    [i \in DOMAIN m |->
        [key |-> m[i].key, val |-> [m[i].val EXCEPT !.lastActive = time]]]

\* const tab = audibleTabsMap.get(tabId); if (tab) tab.lastActive = Date.now();
Touch(m, t, time) ==
    IF MapHas(m, t)
    THEN MapSet(m, t, [MapGet(m, t) EXCEPT !.lastActive = time])
    ELSE m

TogglePlayPause(c, t) ==
    /\ Start(c, "toggle_play_pause", t, "executeScript")
    /\ Quiet(Touch(audibleTabsMap, t, now), "toggle_play_pause", t, "pending")
    /\ UNCHANGED <<now, host, scans, everAudible, stoppedAt,
                   scope, scanner, popup, content>>

\* tab.audible = result.isPlaying; tab.lastActive = Date.now(); push
ApplyToggle(m, t, isPlaying, time) ==
    MapSet(m, t, [MapGet(m, t) EXCEPT !.audible = JsBool(isPlaying),
                                      !.lastActive = time])

TogglePlayPauseResolved(c, media, failing) ==
    /\ At(c, "toggle_play_pause", "executeScript")
    /\ host[cmds[c].tab].st = "open"
    /\ Finish(c)
    /\ LET t == cmds[c].tab
           first == Serving("toggle_play_pause") = FirstBlock
           playing == IF first THEN ScriptIsPlaying(media)
                      ELSE LaterScriptIsPlaying(media)
           m2 == IF first /\ MapHas(audibleTabsMap, t)
                 THEN ApplyToggle(audibleTabsMap, t, playing, now)
                 ELSE audibleTabsMap
           pushes == first /\ MapHas(audibleTabsMap, t)
       IN /\ audibleTabsMap' = m2
          /\ popupPorts' = IF pushes THEN PushPorts(popupPorts, failing)
                           ELSE popupPorts
          /\ ~pushes => failing = {}
          /\ last' = [Ran("toggle_play_pause.then", t, JsBool(playing), NoIcon,
                          IF pushes THEN Posted(popupPorts, failing) ELSE {},
                          IF pushes THEN PushMessage(m2, popupPorts) ELSE <<>>)
                      EXCEPT !.threw = IF pushes THEN Threw(popupPorts, failing)
                                       ELSE {},
                             !.media = media]
    /\ UNCHANGED <<now, host, scans, everAudible, stoppedAt,
                   scope, scanner, popup, content>>

\* executeScript rejected: the tab is gone or the page cannot be scripted.
TogglePlayPauseRejected(c) ==
    /\ At(c, "toggle_play_pause", "executeScript")
    /\ Finish(c)
    /\ Quiet(audibleTabsMap, "toggle_play_pause.catch", cmds[c].tab, "failure")
    /\ UNCHANGED <<now, host, scans, everAudible, stoppedAt,
                   scope, scanner, popup, content>>

(* ------------------------------------------------------------------ *)
(* Command: toggle_mute                                                 *)
(* ------------------------------------------------------------------ *)

ToggleMute(c, t) ==
    /\ Start(c, "toggle_mute", t, "tabs.get")
    /\ Quiet(audibleTabsMap, "toggle_mute", t, "pending")
    /\ UNCHANGED <<now, host, scans, everAudible, stoppedAt,
                   scope, scanner, popup, content>>

\* tabs.get resolved: newMuteState = !isCurrentlyMuted; tabs.update is issued.
ToggleMuteGot(c) ==
    /\ At(c, "toggle_mute", "tabs.get")
    /\ host[cmds[c].tab].st = "open"
    /\ cmds' = [cmds EXCEPT ![c].pc = "tabs.update",
                            ![c].arg = ~host[cmds[c].tab].muted]
    /\ Quiet(audibleTabsMap, "toggle_mute.get", cmds[c].tab, "pending")
    /\ UNCHANGED <<now, host, scans, everAudible, stoppedAt,
                   scope, scanner, popup, content>>

\* The host applies tabs.update and, when the flag changed, fires onUpdated.
ToggleMuteUpdated(c, failing) ==
    /\ At(c, "toggle_mute", "tabs.update")
    /\ host[cmds[c].tab].st = "open"
    /\ Goto(c, "then")
    /\ LET t == cmds[c].tab
           h2 == [host EXCEPT ![t].muted = cmds[c].arg]
       IN /\ HostMoves(h2)
          /\ IF h2 # host
             THEN OnUpdatedMeta(h2, t, "mutedInfo", failing)
             ELSE /\ failing = {}
                  /\ Quiet(audibleTabsMap, "toggle_mute.update", t, "pending")
    /\ UNCHANGED <<now, scans, stoppedAt, scope, scanner, popup, content>>

SetMutedSkipped(m, t, muted) == m

SetMuted(m, t, muted) ==
    MapSet(m, t, [MapGet(m, t) EXCEPT !.muted = JsBool(muted)])

\* tabEntry.muted = result.isMuted; pushUpdateToPopup()
ToggleMuteDone(c, failing) ==
    /\ At(c, "toggle_mute", "then")
    /\ Finish(c)
    /\ LET t == cmds[c].tab IN
       IF MapHas(audibleTabsMap, t)
       THEN PushOnly(SetMuted(audibleTabsMap, t, cmds[c].arg), failing,
                     "toggle_mute.then", t, JsBool(cmds[c].arg))
       ELSE /\ failing = {}
            /\ Quiet(audibleTabsMap, "toggle_mute.then", t, JsBool(cmds[c].arg))
    /\ UNCHANGED <<now, host, scans, everAudible, stoppedAt,
                   scope, scanner, popup, content>>

\* tabs.get or tabs.update rejected.
ToggleMuteRejected(c) ==
    /\ cmds[c].kind = "toggle_mute"
    /\ cmds[c].pc \in {"tabs.get", "tabs.update"}
    /\ Finish(c)
    /\ Quiet(audibleTabsMap, "toggle_mute.catch", cmds[c].tab, "failure")
    /\ UNCHANGED <<now, host, scans, everAudible, stoppedAt,
                   scope, scanner, popup, content>>

(* ------------------------------------------------------------------ *)
(* Command: skip_track                                                  *)
(* ------------------------------------------------------------------ *)

SkipTrack(c, t) ==
    /\ Start(c, "skip_track", t, "sendMessage")
    /\ Quiet(audibleTabsMap, "skip_track", t, "pending")
    /\ UNCHANGED <<now, host, scans, everAudible, stoppedAt,
                   scope, scanner, popup, content>>

\* The content script answered (directly, or after being injected).
SkipTrackAnswered(c, success) ==
    /\ At(c, "skip_track", "sendMessage")
    /\ host[cmds[c].tab].st = "open"
    /\ IF success THEN Goto(c, "tabs.get") ELSE Finish(c)
    /\ Quiet(audibleTabsMap, "skip_track.then", cmds[c].tab,
             IF success THEN "pending" ELSE "failure")
    /\ UNCHANGED <<now, host, scans, everAudible, stoppedAt,
                   scope, scanner, popup, content>>

\* Messaging and injection both rejected: the inline fallback decides.
SkipTrackRejected(c, fallbackClicked) ==
    /\ At(c, "skip_track", "sendMessage")
    /\ fallbackClicked => host[cmds[c].tab].st = "open"
    /\ Finish(c)
    /\ Quiet(audibleTabsMap, "skip_track.catch", cmds[c].tab,
             IF fallbackClicked THEN "success" ELSE "rejected")
    /\ UNCHANGED <<now, host, scans, everAudible, stoppedAt,
                   scope, scanner, popup, content>>

\* const tab = await tabs.get(tabId); upsertFromTab(tab); then tabs.get again.
SkipTrackGot(c) ==
    /\ At(c, "skip_track", "tabs.get")
    /\ host[cmds[c].tab].st = "open"
    /\ Goto(c, "tabs.get2")
    /\ LET t == cmds[c].tab
           up == upsertFromTab(audibleTabsMap, TabObject(t, host[t]), now)
       IN Quiet(up.map, "skip_track.upsert", t, up.res)
    /\ UNCHANGED <<now, host, scans, everAudible, stoppedAt,
                   scope, scanner, popup, content>>

PartialRecord(tab) ==
    [id |-> Undefined, title |-> tab.title, url |-> tab.url,
     audible |-> Undefined, muted |-> Undefined, lastActive |-> NoTime]

\* set(id, { ...audibleTabsMap.get(id) || {}, title, url })
MergeTitleUrl(m, tab) ==
    MapSet(m, tab.id,
        IF MapHas(m, tab.id)
        THEN [MapGet(m, tab.id) EXCEPT !.title = tab.title, !.url = tab.url]
        ELSE PartialRecord(tab))

SkipTrackGotAgainOfClosedTab(c, failing) ==
    /\ At(c, "skip_track", "tabs.get2")
    /\ Goto(c, "update_title")
    /\ LET t == cmds[c].tab IN
       PushOnly(MergeTitleUrl(audibleTabsMap, TabObject(t, host[t])), failing,
                "skip_track.merge", t, "pending")
    /\ UNCHANGED <<now, host, scans, everAudible, stoppedAt,
                   scope, scanner, popup, content>>

\* const updatedTab = await tabs.get(tabId); merge; pushUpdateToPopup()
SkipTrackGotAgain(c, failing) ==
    /\ At(c, "skip_track", "tabs.get2")
    /\ host[cmds[c].tab].st = "open"
    /\ Goto(c, "update_title")
    /\ LET t == cmds[c].tab IN
       PushOnly(MergeTitleUrl(audibleTabsMap, TabObject(t, host[t])), failing,
                "skip_track.merge", t, "pending")
    /\ UNCHANGED <<now, host, scans, everAudible, stoppedAt,
                   scope, scanner, popup, content>>

\* Either tabs.get rejected (caught and logged), or the update_title message
\* settled: the command answers { success: true, method }.
SkipTrackDone(c) ==
    /\ cmds[c].kind = "skip_track"
    /\ \/ cmds[c].pc = "update_title"
       \/ cmds[c].pc \in {"tabs.get", "tabs.get2"} /\ host[cmds[c].tab].st # "open"
    /\ Finish(c)
    /\ Quiet(audibleTabsMap, "skip_track.done", cmds[c].tab, "success")
    /\ UNCHANGED <<now, host, scans, everAudible, stoppedAt,
                   scope, scanner, popup, content>>

(* ------------------------------------------------------------------ *)
(* The cache without retention (src/background.js)                      *)
(* ------------------------------------------------------------------ *)

\* { id, title, url, audible: true, muted }: no lastActive is ever written.
LegacyRecord(tab) ==
    [id |-> tab.id,
     title |-> OrElse(tab.title, OrElse(tab.url, "Tab " \o tab.id)),
     url |-> OrElse(tab.url, ""),
     audible |-> "true",
     muted |-> JsBool(tab.muted),
     lastActive |-> NoTime]

legacyUpsertKeepsSilent(m, tab) ==
    IF tab.audible
    THEN [map |-> MapSet(m, tab.id, LegacyRecord(tab)),
          res |-> IF MapHas(m, tab.id) THEN "updated" ELSE "added"]
    ELSE IF MapHas(m, tab.id)
         THEN [map |-> MapSet(m, tab.id,
                          [MapGet(m, tab.id) EXCEPT !.audible = "false"]),
               res |-> "updated"]
         ELSE [map |-> m, res |-> "false"]

\* upsertFromTab of src/background.js: the map after the call and the
\* value returned.
legacyUpsertFromTab(m, tab) ==
    IF tab.audible
    THEN [map |-> MapSet(m, tab.id, LegacyRecord(tab)),
          res |-> IF MapHas(m, tab.id) THEN "updated" ELSE "added"]
    ELSE IF MapHas(m, tab.id)
         THEN [map |-> MapDelete(m, tab.id), res |-> "removed"]
         ELSE [map |-> m, res |-> "false"]

RECURSIVE LegacyUpsertAll(_, _)
LegacyUpsertAll(m, tabSeq) ==
    IF tabSeq = <<>> THEN m
    ELSE LegacyUpsertAll(legacyUpsertFromTab(m, Head(tabSeq)).map, Tail(tabSeq))

\* The tabs of runtime.sendMessage({ command: 'audible_tabs_changed', tabs }):
\* getAudibleTabs(), the values of the map as they are.
LegacyPushTabs(m) ==
    [i \in DOMAIN m |-> [rec |-> m[i].val, isPlaying |-> Undefined]]

\* updateIconForMediaTabs(); pushUpdateToPopup();
LegacyRefreshAndPush(m, op, t, res) ==
    /\ audibleTabsMap' = m
    /\ popupPorts' = popupPorts
    /\ last' = Ran(op, t, res, Len(m), {}, LegacyPushTabs(m))

\* updateIconForMediaTabs() alone.
LegacyRefreshOnly(m, op) ==
    /\ audibleTabsMap' = m
    /\ popupPorts' = popupPorts
    /\ last' = Ran(op, "", "false", Len(m), {}, <<>>)

\* pushUpdateToPopup() alone.
LegacyPushOnly(m, op, t, res) ==
    /\ audibleTabsMap' = m
    /\ popupPorts' = popupPorts
    /\ last' = Ran(op, t, res, NoIcon, {}, LegacyPushTabs(m))

\* tabs.onCreated
LegacyTabCreated(t, a, ti) ==
    /\ host[t].st = "unborn"
    /\ LET h2 == [host EXCEPT ![t] =
                    [st |-> "open", audible |-> a, muted |-> FALSE, title |-> ti]]
           up == legacyUpsertFromTab(audibleTabsMap, TabObject(t, h2[t]))
       IN /\ HostMoves(h2)
          /\ IF up.res # "false"
             THEN LegacyRefreshAndPush(up.map, "tabs.onCreated", t, up.res)
             ELSE Quiet(up.map, "tabs.onCreated", t, up.res)
    /\ UNCHANGED <<now, cmds, scans, stoppedAt, scope, scanner, popup, content>>

\* tabs.onUpdated with changeInfo.audible set
LegacyTabAudibleChanged(t) ==
    /\ host[t].st = "open"
    /\ LET h2 == [host EXCEPT ![t].audible = ~host[t].audible]
           up == legacyUpsertFromTab(audibleTabsMap, TabObject(t, h2[t]))
       IN /\ HostMoves(h2)
          /\ IF up.res # "false"
             THEN LegacyRefreshAndPush(up.map, "tabs.onUpdated", t, up.res)
             ELSE Quiet(up.map, "tabs.onUpdated", t, up.res)
    /\ UNCHANGED <<now, cmds, scans, stoppedAt, scope, scanner, popup, content>>

\* The else-branch of tabs.onUpdated, which is the same in both files.
LegacyOnUpdatedMeta(h2, t, prop) ==
    LET m2 == MetaUpdate(audibleTabsMap, TabObject(t, h2[t]), prop) IN
    IF m2 # audibleTabsMap
    THEN LegacyRefreshAndPush(m2, "tabs.onUpdated", t, "meta")
    ELSE Quiet(m2, "tabs.onUpdated", t, "false")

\* tabs.onUpdated with changeInfo.title set
LegacyTabTitleChanged(t, ti) ==
    /\ host[t].st = "open"
    /\ ti # host[t].title
    /\ LET h2 == [host EXCEPT ![t].title = ti]
       IN /\ HostMoves(h2)
          /\ LegacyOnUpdatedMeta(h2, t, "title")
    /\ UNCHANGED <<now, cmds, scans, stoppedAt, scope, scanner, popup, content>>

\* tabs.onUpdated with changeInfo.mutedInfo set
LegacyTabMutedChanged(t) ==
    /\ host[t].st = "open"
    /\ LET h2 == [host EXCEPT ![t].muted = ~host[t].muted]
       IN /\ HostMoves(h2)
          /\ LegacyOnUpdatedMeta(h2, t, "mutedInfo")
    /\ UNCHANGED <<now, cmds, scans, stoppedAt, scope, scanner, popup, content>>

\* tabs.onRemoved: if (audibleTabsMap.delete(tabId)) { ... }
LegacyTabRemoved(t) ==
    /\ host[t].st = "open"
    /\ HostMoves([host EXCEPT ![t] = ClosedTab])
    /\ IF MapHas(audibleTabsMap, t)
       THEN LegacyRefreshAndPush(MapDelete(audibleTabsMap, t),
                                 "tabs.onRemoved", t, "true")
       ELSE Quiet(audibleTabsMap, "tabs.onRemoved", t, "false")
    /\ UNCHANGED <<now, cmds, scans, stoppedAt, scope, scanner, popup, content>>

\* init() and the runtime.onStartup listener
LegacyScan(which) ==
    /\ which \in scans
    /\ scans' = scans \ {which}
    /\ LegacyRefreshOnly(LegacyUpsertAll(audibleTabsMap, OpenTabsInOrder), which)
    /\ UNCHANGED <<now, host, cmds, everAudible, stoppedAt,
                   scope, scanner, popup, content>>

\* windows.onCreated -> updateIconForMediaTabs
LegacyWindowCreated ==
    /\ LegacyRefreshOnly(audibleTabsMap, "windows.onCreated")
    /\ UNCHANGED <<now, host, cmds, scans, everAudible, stoppedAt,
                   scope, scanner, popup, content>>

\* get_media_tabs: the values of the map, each reported audible and playing.
LegacyGetMediaTabsReply(m) ==
    [i \in DOMAIN m |->
        [id |-> m[i].val.id, title |-> m[i].val.title, url |-> m[i].val.url,
         audible |-> "true", muted |-> m[i].val.muted, isPlaying |-> "true",
         isPaused |-> "false", mediaCount |-> 1]]

LegacyGetMediaTabs ==
    /\ audibleTabsMap' = audibleTabsMap
    /\ popupPorts' = popupPorts
    /\ last' = Ran("get_media_tabs", "", "reply", NoIcon, {},
                   LegacyGetMediaTabsReply(audibleTabsMap))
    /\ UNCHANGED <<now, host, cmds, scans, everAudible, stoppedAt,
                   scope, scanner, popup, content>>

\* skip_track and toggle_play_pause run a script in the page and answer
\* with its result: they read and write nothing of the cache.
LegacyPageCommand(c, kind, t) ==
    /\ kind \in {"skip_track", "toggle_play_pause"}
    /\ Start(c, kind, t, "executeScript")
    /\ Quiet(audibleTabsMap, kind, t, "pending")
    /\ UNCHANGED <<now, host, scans, everAudible, stoppedAt,
                   scope, scanner, popup, content>>

LegacyPageCommandSettled(c, success) ==
    /\ cmds[c].kind \in {"skip_track", "toggle_play_pause"}
    /\ cmds[c].pc = "executeScript"
    /\ success => host[cmds[c].tab].st = "open"
    /\ Finish(c)
    /\ Quiet(audibleTabsMap, cmds[c].kind, cmds[c].tab,
             IF success THEN "success" ELSE "failure")
    /\ UNCHANGED <<now, host, scans, everAudible, stoppedAt,
                   scope, scanner, popup, content>>

\* toggle_mute: tabs.update is applied and the host fires onUpdated.
LegacyToggleMuteUpdated(c) ==
    /\ At(c, "toggle_mute", "tabs.update")
    /\ host[cmds[c].tab].st = "open"
    /\ Goto(c, "then")
    /\ LET t == cmds[c].tab
           h2 == [host EXCEPT ![t].muted = cmds[c].arg]
       IN /\ HostMoves(h2)
          /\ IF h2 # host
             THEN LegacyOnUpdatedMeta(h2, t, "mutedInfo")
             ELSE Quiet(audibleTabsMap, "toggle_mute.update", t, "pending")
    /\ UNCHANGED <<now, scans, stoppedAt, scope, scanner, popup, content>>

\* tabEntry.muted = result.isMuted; pushUpdateToPopup()
LegacyToggleMuteDone(c) ==
    /\ At(c, "toggle_mute", "then")
    /\ Finish(c)
    /\ LET t == cmds[c].tab IN
       IF MapHas(audibleTabsMap, t)
       THEN LegacyPushOnly(SetMuted(audibleTabsMap, t, cmds[c].arg),
                           "toggle_mute.then", t, JsBool(cmds[c].arg))
       ELSE Quiet(audibleTabsMap, "toggle_mute.then", t, JsBool(cmds[c].arg))
    /\ UNCHANGED <<now, host, scans, everAudible, stoppedAt,
                   scope, scanner, popup, content>>

(* ------------------------------------------------------------------ *)
(* Specification                                                        *)
(* ------------------------------------------------------------------ *)

Slots == 1..scope.slots

Failing == SUBSET popupPorts

HostEvent ==
    \E failing \in Failing :
        \/ \E t \in scope.tabs, a \in BOOLEAN, ti \in scope.born :
              TabCreated(t, a, ti, failing)
        \/ \E t \in scope.tabs : TabAudibleChanged(t, failing)
        \/ \E t \in scope.tabs, ti \in scope.titles : TabTitleChanged(t, ti, failing)
        \/ \E t \in scope.tabs : TabMutedChanged(t, failing)
        \/ \E t \in scope.tabs : TabRemoved(t, failing)

Housekeeping ==
    \/ Tick
    \/ CleanupTimer
    \/ \E which \in {"init", "onStartup"} : Scan(which)
    \/ WindowCreated

Popup ==
    \E p \in scope.ports : PopupConnect(p) \/ PopupDisconnect(p)

PlayPauseCommand ==
    \E c \in Slots :
        \/ \E t \in scope.tabs : TogglePlayPause(c, t)
        \/ \E media \in MediaConfigs, failing \in Failing :
              TogglePlayPauseResolved(c, media, failing)
        \/ TogglePlayPauseRejected(c)

MuteCommand ==
    \E c \in Slots :
        \/ \E t \in scope.tabs : ToggleMute(c, t)
        \/ ToggleMuteGot(c)
        \/ \E failing \in Failing : ToggleMuteUpdated(c, failing)
        \/ \E failing \in Failing : ToggleMuteDone(c, failing)
        \/ ToggleMuteRejected(c)

SkipCommand ==
    \E c \in Slots :
        \/ \E t \in scope.tabs : SkipTrack(c, t)
        \/ \E success \in BOOLEAN : SkipTrackAnswered(c, success)
        \/ \E clicked \in BOOLEAN : SkipTrackRejected(c, clicked)
        \/ SkipTrackGot(c)
        \/ \E failing \in Failing : SkipTrackGotAgain(c, failing)
        \/ SkipTrackDone(c)

Next ==
    \/ HostEvent
    \/ Housekeeping
    \/ Popup
    \/ GetMediaTabs
    \/ PlayPauseCommand
    \/ MuteCommand
    \/ SkipCommand

Spec == Init /\ [][Next]_vars

\* Steps that take place whatever a page does: the interval timer fires,
\* and the browser itself answers tabs.get and tabs.update. The program arms
\* no timer of its own for executeScript or tabs.sendMessage.
HostAnswers ==
    \E c \in Slots :
        \/ ToggleMuteGot(c)
        \/ \E failing \in Failing : ToggleMuteUpdated(c, failing)
        \/ \E failing \in Failing : ToggleMuteDone(c, failing)
        \/ SkipTrackGot(c)
        \/ \E failing \in Failing : SkipTrackGotAgain(c, failing)
        \/ SkipTrackDone(c)

\* The program with a page that may never answer: the timer and the
\* browser's own answers are not postponed for ever.
SpecHung ==
    Init /\ [][Next]_vars /\ WF_vars(CleanupTimer) /\ WF_vars(HostAnswers)

\* Two tabs that are open when the background page loads, each with a
\* command slot of its own: the tabs start and stop sounding while commands
\* for both are in flight. Time stands still and no popup is connected.
InitTabs ==
    /\ InitIn(TwoTabs)
    /\ \A t \in Tabs : host[t].st = "open"

TabOf(c) == TabOrder[c]

NextTabs ==
    \/ \E t \in scope.tabs, failing \in Failing : TabAudibleChanged(t, failing)
    \/ \E c \in Slots :
          \/ TogglePlayPause(c, TabOf(c))
          \/ \E media \in MediaConfigs, failing \in Failing :
                TogglePlayPauseResolved(c, media, failing)
          \/ TogglePlayPauseRejected(c)
          \/ ToggleMute(c, TabOf(c))
          \/ ToggleMuteGot(c)
          \/ \E failing \in Failing : ToggleMuteUpdated(c, failing)
          \/ \E failing \in Failing : ToggleMuteDone(c, failing)
          \/ ToggleMuteRejected(c)
          \/ SkipTrack(c, TabOf(c))
          \/ \E success \in BOOLEAN : SkipTrackAnswered(c, success)
          \/ \E clicked \in BOOLEAN : SkipTrackRejected(c, clicked)
          \/ SkipTrackGot(c)
          \/ \E failing \in Failing : SkipTrackGotAgain(c, failing)
          \/ SkipTrackDone(c)

SpecTabs == InitTabs /\ [][NextTabs]_vars

\* The content script alone, on every page of Pages, before any tab exists.
InitSkip ==
    /\ scope = OneTab
    /\ now = Quantum
    /\ host = [t \in Tabs |-> NoTab]
    /\ audibleTabsMap = <<>>
    /\ popupPorts = {}
    /\ cmds = [c \in 1..MaxCmds |-> IdleCmd]
    /\ scans = {}
    /\ everAudible = {}
    /\ stoppedAt = [t \in Tabs |-> NoTime]
    /\ last = Ran("load", "", "false", NoIcon, {}, <<>>)
    /\ scanner = IdleScanner
    /\ popup = IdlePopup
    /\ content \in [page : Pages, run : {NotRun}, loop : {NoLoop}]

NextSkip ==
    \E dir \in Directions : RunSkipTrack(dir) \/ RunContentButtonLoop(dir)

SpecSkip == InitSkip /\ [][NextSkip]_vars

\* The scan alone, over every answer of tabs.query of up to MaxScanTabs tabs.
InitScan ==
    /\ scope = OneTab
    /\ now = Quantum
    /\ host = [t \in Tabs |-> NoTab]
    /\ audibleTabsMap = <<>>
    /\ popupPorts = {}
    /\ cmds = [c \in 1..MaxCmds |-> IdleCmd]
    /\ scans = {}
    /\ everAudible = {}
    /\ stoppedAt = [t \in Tabs |-> NoTime]
    /\ last = Ran("load", "", "false", NoIcon, {}, <<>>)
    /\ content = IdleContent
    /\ popup = IdlePopup
    /\ scanner \in {[IdleScanner EXCEPT !.tabs = tabs] :
                       tabs \in UNION {[1..n -> ScanTabs] : n \in 0..MaxScanTabs}}

NextScan ==
    \/ CallGetAllMediaTabs
    \/ ScanQueryResolved
    \/ ScanQueryRejected
    \/ ScanBatchSettled
    \/ ScanTick

SpecScan == InitScan /\ [][NextScan]_vars

\* The popup alone, showing one tab in either state.
InitButtons ==
    /\ scope = OneTab
    /\ now = Quantum
    /\ host = [t \in Tabs |-> NoTab]
    /\ audibleTabsMap = <<>>
    /\ popupPorts = {}
    /\ cmds = [c \in 1..MaxCmds |-> IdleCmd]
    /\ scans = {}
    /\ everAudible = {}
    /\ stoppedAt = [t \in Tabs |-> NoTime]
    /\ last = Ran("load", "", "false", NoIcon, {}, <<>>)
    /\ content = IdleContent
    /\ scanner = IdleScanner
    /\ popup \in {[btn |-> Rendered(isPlaying, muted)] :
                     isPlaying \in BOOLEAN, muted \in BOOLEAN}

NextButtons ==
    \E b \in Buttons :
        \/ \E answered \in BOOLEAN : Click(b, answered)
        \/ \E reply \in Replies : Answered(b, reply)
        \/ TimerFires(b)

\* A message the background settles is delivered, and an armed timer fires.
SpecButtons ==
    /\ InitButtons
    /\ [][NextButtons]_vars
    /\ \A b \in Buttons :
          /\ WF_vars(\E reply \in Replies : Answered(b, reply))
          /\ WF_vars(TimerFires(b))

\* toggle_mute commands for one tab, sent before the earlier ones have
\* answered, while the tab starts and stops sounding and a popup listens.
InitMute == InitIn(RacingCommands)

NextMute ==
    \/ \E t \in scope.tabs, a \in BOOLEAN, ti \in scope.born, failing \in Failing :
          TabCreated(t, a, ti, failing)
    \/ \E t \in scope.tabs, failing \in Failing : TabAudibleChanged(t, failing)
    \/ \E p \in scope.ports : PopupConnect(p)
    \/ MuteCommand

SpecMute == InitMute /\ [][NextMute]_vars

\* src/background.js with two tabs, untitled when created.
InitLegacy == InitIn(LegacyTabs)

LegacyHostEvent ==
    \/ \E t \in scope.tabs, a \in BOOLEAN, ti \in scope.born :
          LegacyTabCreated(t, a, ti)
    \/ \E t \in scope.tabs : LegacyTabAudibleChanged(t)
    \/ \E t \in scope.tabs, ti \in scope.titles : LegacyTabTitleChanged(t, ti)
    \/ \E t \in scope.tabs : LegacyTabMutedChanged(t)
    \/ \E t \in scope.tabs : LegacyTabRemoved(t)

LegacyHousekeeping ==
    \/ \E which \in {"init", "onStartup"} : LegacyScan(which)
    \/ LegacyWindowCreated

LegacyCommand ==
    \E c \in Slots :
        \/ \E t \in scope.tabs, kind \in {"skip_track", "toggle_play_pause"} :
              LegacyPageCommand(c, kind, t)
        \/ \E success \in BOOLEAN : LegacyPageCommandSettled(c, success)
        \/ \E t \in scope.tabs : ToggleMute(c, t)
        \/ ToggleMuteGot(c)
        \/ LegacyToggleMuteUpdated(c)
        \/ LegacyToggleMuteDone(c)
        \/ ToggleMuteRejected(c)

NextLegacy ==
    \/ LegacyHostEvent
    \/ LegacyHousekeeping
    \/ LegacyGetMediaTabs
    \/ LegacyCommand

SpecLegacy == InitLegacy /\ [][NextLegacy]_vars

\* The same program with two popups.
InitPopups == InitIn(TwoPopups)

SpecPopups == InitPopups /\ [][Next]_vars

(* ------------------------------------------------------------------ *)
(* What the claims speak of                                             *)
(* ------------------------------------------------------------------ *)

\* The ids of a delivered tab list: a get_media_tabs reply lists plain
\* objects, a port message lists the records.
DeliveredIds(l) ==
    [i \in DOMAIN l.msg |->
        IF l.op = "get_media_tabs" THEN l.msg[i].id ELSE l.msg[i].rec.id]

Delivered(l) == l.op = "get_media_tabs" \/ l.posted # {}

AtMostOnce(ids, t) == Cardinality({i \in DOMAIN ids : ids[i] = t}) <= 1

Removed(t) == host[t].st = "open" /\ host'[t].st = "closed"

(* ------------------------------------------------------------------ *)
(* C1                                                                   *)
(* ------------------------------------------------------------------ *)

\* C1: whatever events, scans, commands and evictions have run, the map
\* holds at most one entry per tab id, and every tab list that is delivered
\* or that getAudibleTabs would return names each tab id at most once.
C1_OneRecordPerTab ==
    /\ \A i, j \in DOMAIN audibleTabsMap :
          audibleTabsMap[i].key = audibleTabsMap[j].key => i = j
    /\ \A t \in Tabs :
          /\ AtMostOnce([i \in DOMAIN audibleTabsMap |-> audibleTabsMap[i].val.id], t)
          /\ LET live == getAudibleTabs(audibleTabsMap, now) IN
             AtMostOnce([i \in DOMAIN live |-> live[i].id], t)
          /\ Delivered(last) => AtMostOnce(DeliveredIds(last), t)

\* A tab that already had a record, written when it was first heard, has
\* been observed audible a second time at a later moment: upsertFromTab
\* answered 'updated', the record carries the new time, and the popup was
\* sent a list that names the tab once.
C1_Witness ==
    /\ last.op = "tabs.onUpdated"
    /\ last.res = "updated"
    /\ MapHas(audibleTabsMap, last.tab)
    /\ MapGet(audibleTabsMap, last.tab).audible = "true"
    /\ MapGet(audibleTabsMap, last.tab).lastActive = now
    /\ now > Quantum
    /\ last.posted # {}
    /\ Len(last.msg) = 1

(* ------------------------------------------------------------------ *)
(* C2                                                                   *)
(* ------------------------------------------------------------------ *)

\* upsert as the claim describes it: audible=false on an existing record
\* changes nothing but the audible flag.
DescribedUpsert(m, tab, t) ==
    IF tab.audible
    THEN [map |-> MapSet(m, tab.id,
                    [id |-> tab.id,
                     title |-> OrElse(tab.title, OrElse(tab.url, "Tab " \o tab.id)),
                     url |-> OrElse(tab.url, ""), audible |-> "true",
                     muted |-> JsBool(tab.muted), lastActive |-> t]),
          res |-> IF MapHas(m, tab.id) THEN "updated" ELSE "added"]
    ELSE IF MapHas(m, tab.id)
         THEN [map |-> MapSet(m, tab.id,
                         [MapGet(m, tab.id) EXCEPT !.audible = "false"]),
               res |-> "updated"]
         ELSE [map |-> m, res |-> "false"]

\* C2: every call of upsertFromTab - from tabs.onCreated, from tabs.onUpdated
\* with an audible change, from skip_track - returns what the claim says and
\* leaves the map the claim says (the event listeners then evict, as
\* updateIconForMediaTabs does).
C2_UpsertAsDescribed ==
    [][/\ \A c \in Slots :
            last'.op = "skip_track.upsert" /\ At(c, "skip_track", "tabs.get") =>
                LET d == DescribedUpsert(audibleTabsMap,
                             TabObject(cmds[c].tab, host[cmds[c].tab]), now)
                IN audibleTabsMap' = d.map /\ last'.res = d.res
       /\ \A t \in Tabs :
            /\ host[t].st # "closed"
            /\ host'[t].st = "open"
            /\ host[t].st = "open" => host'[t].audible # host[t].audible
            /\ last'.op \in {"tabs.onCreated", "tabs.onUpdated"}
            => LET d == DescribedUpsert(audibleTabsMap, TabObject(t, host'[t]), now)
               IN /\ last'.res = d.res
                  /\ audibleTabsMap' =
                        IF d.res = "false" THEN d.map
                        ELSE cleanupOldTabs(d.map, now)
      ]_vars

(* ------------------------------------------------------------------ *)
(* C3                                                                   *)
(* ------------------------------------------------------------------ *)

InReply(rec, reply) ==
    \E j \in DOMAIN reply :
        /\ reply[j].id = rec.id
        /\ reply[j].title = rec.title
        /\ reply[j].url = rec.url
        /\ reply[j].muted = rec.muted

\* C3: a snapshot (getAudibleTabs, as get_media_tabs answers it) contains a
\* record whose audible flag is false exactly while now - lastActive is
\* below the retention window.
C3_RetainedUntilWindowEnds ==
    [][last'.op = "get_media_tabs" =>
          \A i \in DOMAIN audibleTabsMap :
              LET rec == audibleTabsMap[i].val IN
              rec.audible = "false" =>
                  /\ rec.lastActive # NoTime
                  /\ InReply(rec, last'.msg) <=>
                        (now - rec.lastActive < TAB_RETENTION_MS)
      ]_vars

\* A snapshot taken in the last quantum of the window of an inactive record
\* returns it.
C3_Witness ==
    /\ last.op = "get_media_tabs"
    /\ \E i \in DOMAIN audibleTabsMap :
          LET rec == audibleTabsMap[i].val IN
          /\ rec.audible = "false"
          /\ now - rec.lastActive = TAB_RETENTION_MS - Quantum
          /\ InReply(rec, last.msg)

(* ------------------------------------------------------------------ *)
(* C4                                                                   *)
(* ------------------------------------------------------------------ *)

\* C4: a cached tab the host reported silent at time t is still in the map,
\* and in the snapshot, at every time before t + TAB_RETENTION_MS.
C4_KeptForWindowAfterStop ==
    \A t \in Tabs :
        /\ stoppedAt[t] # NoTime
        /\ now < stoppedAt[t] + TAB_RETENTION_MS
        => /\ MapHas(audibleTabsMap, t)
           /\ \E i \in DOMAIN getAudibleTabs(audibleTabsMap, now) :
                 getAudibleTabs(audibleTabsMap, now)[i] = MapGet(audibleTabsMap, t)

(* ------------------------------------------------------------------ *)
(* C5                                                                   *)
(* ------------------------------------------------------------------ *)

\* C5: when tabs.onRemoved has run for a tab, the map has no entry for it;
\* if it had one, the icon shows the count of the remaining live tabs and
\* every connected popup whose port accepts the message is sent the map
\* as it is now, without that tab.
C5_RemovedAtOnce ==
    [][\A t \in Tabs : Removed(t) =>
          /\ ~MapHas(audibleTabsMap', t)
          /\ MapHas(audibleTabsMap, t) =>
                /\ last'.icon = Len(getAudibleTabs(audibleTabsMap', now))
                /\ last'.posted = popupPorts'
                /\ last'.posted # {} => last'.msg = PushTabs(audibleTabsMap')
                /\ \A i \in DOMAIN last'.msg :
                      /\ last'.msg[i].rec.id # t
                      /\ last'.msg[i].rec # MapGet(audibleTabsMap, t)
      ]_vars

\* A tab with a record was closed while a popup was connected: the popup got
\* the list without it.
C5_Witness ==
    /\ last.op = "tabs.onRemoved"
    /\ last.res = "true"
    /\ last.posted # {}
    /\ host[last.tab].st = "closed"
    /\ ~MapHas(audibleTabsMap, last.tab)

(* ------------------------------------------------------------------ *)
(* C6                                                                   *)
(* ------------------------------------------------------------------ *)

\* C6: a run of cleanupOldTabs leaves a map that a second run at the same
\* time leaves as it is, with the same snapshot; and every entry it removed
\* was not audible and had now - lastActive >= TAB_RETENTION_MS.
C6_EvictionIdempotent ==
    [][last'.op = "cleanupOldTabs" =>
          /\ cleanupOldTabs(audibleTabsMap', now) = audibleTabsMap'
          /\ getAudibleTabs(audibleTabsMap', now) = getAudibleTabs(audibleTabsMap, now)
          /\ \A i \in DOMAIN audibleTabsMap :
                LET e == audibleTabsMap[i] IN
                \/ \E j \in DOMAIN audibleTabsMap' : audibleTabsMap'[j] = e
                \/ /\ e.val.audible # "true"
                   /\ e.val.lastActive # NoTime
                   /\ now - e.val.lastActive >= TAB_RETENTION_MS
      ]_vars

\* The timer ran and evicted.
C6_Witness ==
    /\ last.op = "cleanupOldTabs"
    /\ last.res = "evicted"
    /\ \E t \in everAudible : host[t].st = "open" /\ ~MapHas(audibleTabsMap, t)

(* ------------------------------------------------------------------ *)
(* C7                                                                   *)
(* ------------------------------------------------------------------ *)

Stale(rec, t) ==
    /\ rec.audible = "false"
    /\ rec.lastActive # NoTime
    /\ t - rec.lastActive >= TAB_RETENTION_MS

\* C7: no tab list handed to a popup - reply, connection snapshot or push -
\* holds a record that is not audible and is past the retention window.
C7_NothingStaleDelivered ==
    /\ last.posted # {} =>
          \A i \in DOMAIN last.msg : ~Stale(last.msg[i].rec, now)
    /\ last.op = "get_media_tabs" =>
          \A i \in DOMAIN last.msg :
              \A j \in DOMAIN audibleTabsMap :
                  audibleTabsMap[j].val.id = last.msg[i].id =>
                      ~Stale(audibleTabsMap[j].val, now)

(* ------------------------------------------------------------------ *)
(* C8                                                                   *)
(* ------------------------------------------------------------------ *)

\* C8: every tab that has a record has been audible at some time since the
\* background page started.
C8_OnlyTabsThatWereAudible == MapKeys(audibleTabsMap) \subseteq everAudible

(* ------------------------------------------------------------------ *)
(* C9                                                                   *)
(* ------------------------------------------------------------------ *)

UpsertOps ==
    {"tabs.onCreated", "tabs.onUpdated", "init", "onStartup", "skip_track.upsert"}

LastActiveOf(m, t) == MapGet(m, t).lastActive

\* The step wrote the entry of t through an upsert that carried audible=true.
AudibleUpsert(t) ==
    /\ last'.op \in UpsertOps
    /\ host'[t].audible
    /\ MapGet(audibleTabsMap', t).audible = "true"

\* C9 as claimed: while a record lives its lastActive never decreases, and a
\* step changes it only by an upsert that carries audible=true.
C9_OnlyAudibleUpsertMovesLastActive ==
    [][\A t \in Tabs :
          MapHas(audibleTabsMap, t) /\ MapHas(audibleTabsMap', t) =>
              /\ LastActiveOf(audibleTabsMap', t) >= LastActiveOf(audibleTabsMap, t)
              /\ LastActiveOf(audibleTabsMap', t) # LastActiveOf(audibleTabsMap, t)
                    => AudibleUpsert(t)
      ]_vars

\* C9 as amended: lastActive never decreases; a step that changes it sets it
\* to the current time and is an upsert carrying audible=true, or
\* toggle_play_pause (on dispatch or in its continuation), or an upsert
\* carrying audible=false on a record that had no lastActive.
C9_LastActiveMonotone ==
    [][\A t \in Tabs :
          MapHas(audibleTabsMap, t) /\ MapHas(audibleTabsMap', t) =>
              /\ LastActiveOf(audibleTabsMap', t) >= LastActiveOf(audibleTabsMap, t)
              /\ LastActiveOf(audibleTabsMap', t) # LastActiveOf(audibleTabsMap, t) =>
                    /\ LastActiveOf(audibleTabsMap', t) = now
                    /\ \/ AudibleUpsert(t)
                       \/ last'.op \in {"toggle_play_pause", "toggle_play_pause.then"}
                       \/ /\ last'.op \in UpsertOps
                          /\ LastActiveOf(audibleTabsMap, t) = NoTime
                          /\ MapGet(audibleTabsMap', t).audible = "false"
      ]_vars

\* toggle_play_pause was dispatched for a tab that went silent earlier: its
\* record, still inactive, now carries the current time.
C9_Witness ==
    /\ last.op = "toggle_play_pause"
    /\ MapHas(audibleTabsMap, last.tab)
    /\ MapGet(audibleTabsMap, last.tab).audible = "false"
    /\ MapGet(audibleTabsMap, last.tab).lastActive = now
    /\ stoppedAt[last.tab] # NoTime
    /\ stoppedAt[last.tab] < now

(* ------------------------------------------------------------------ *)
(* C10                                                                  *)
(* ------------------------------------------------------------------ *)

Phase(m, t) ==
    IF ~MapHas(m, t) THEN "absent"
    ELSE IF MapGet(m, t).audible = "true" THEN "active"
    ELSE "inactive"

\* C10: a record is created active; an inactive record turns active only
\* when the host reports the tab audible; a record goes away only when it
\* is evicted, inactive and past the window, or when its tab is closed.
C10_RecordStateMachine ==
    [][\A t \in Tabs :
          LET before == Phase(audibleTabsMap, t)
              after == Phase(audibleTabsMap', t)
          IN /\ before = "absent" => after \in {"absent", "active"}
             /\ before = "inactive" /\ after = "active" => AudibleUpsert(t)
             /\ before # "absent" /\ after = "absent" =>
                   \/ Removed(t)
                   \/ before = "inactive" /\ ShouldEvict(MapGet(audibleTabsMap, t), now)
      ]_vars

(* ------------------------------------------------------------------ *)
(* C11                                                                  *)
(* ------------------------------------------------------------------ *)

PortOps == {"runtime.onConnect", "port.onDisconnect"}

C12_EveryMutationPushed ==
    [][audibleTabsMap' # audibleTabsMap /\ popupPorts' # {} =>
          /\ last'.posted = popupPorts'
          /\ Len(last'.msg) = Len(audibleTabsMap')
          /\ \A i \in DOMAIN last'.msg : last'.msg[i].rec = audibleTabsMap'[i].val
      ]_vars

(* ------------------------------------------------------------------ *)
(* C13                                                                  *)
(* ------------------------------------------------------------------ *)

\* C13: a message is only ever posted to a port that is registered; a
\* disconnection removes one port and posts nothing; a connection adds the
\* connecting port; any other step leaves the set as it was, less the ports
\* whose postMessage threw in that step.
C13_RegisteredPorts ==
    [][/\ last'.posted \subseteq popupPorts'
       /\ last'.op = "port.onDisconnect" =>
             /\ popupPorts' \subseteq popupPorts
             /\ Cardinality(popupPorts') = Cardinality(popupPorts) - 1
             /\ last'.posted = {}
       /\ last'.op = "runtime.onConnect" =>
             /\ popupPorts \subseteq popupPorts'
             /\ Cardinality(popupPorts') = Cardinality(popupPorts) + 1
       /\ last'.op \notin PortOps =>
             /\ popupPorts' = popupPorts \ last'.threw
             /\ last'.posted \in {{}, popupPorts'}
      ]_vars

\* One of two connected popups has just disconnected.
C13_Witness ==
    /\ last.op = "port.onDisconnect"
    /\ Cardinality(popupPorts) = 1

(* ------------------------------------------------------------------ *)
(* C14                                                                  *)
(* ------------------------------------------------------------------ *)

\* C14: when a port's postMessage throws during a push, every other
\* connected port is posted the message, which lists the map as the handler
\* leaves it, and the handler runs to its end: it neither fails nor leaves
\* the throwing port registered.
C14_ThrowingPortSkipped ==
    [][last'.threw # {} =>
          /\ last'.threw \subseteq popupPorts
          /\ last'.posted = popupPorts \ last'.threw
          /\ popupPorts' = last'.posted
          /\ last'.msg = PushTabs(audibleTabsMap')
          /\ last'.res \notin {"failure", "rejected"}
      ]_vars

\* The first port in iteration order threw while the tab stopped playing;
\* the second was posted the update.
C14_Witness ==
    /\ last.threw = {"p1"}
    /\ last.posted = {"p2"}
    /\ popupPorts = {"p2"}
    /\ last.op = "tabs.onUpdated"
    /\ Len(last.msg) = 1
    /\ last.msg[1].isPlaying = "false"

(* ------------------------------------------------------------------ *)
(* What the skip resolver's claims speak of                             *)
(* ------------------------------------------------------------------ *)

RanSkipTrack == content.run.st # "idle"

\* What a page offers each strategy. A probe that throws has found nothing.
ButtonTarget(page) ==
    \E i \in DOMAIN page.buttons :
        \E e \in DOMAIN page.buttons[i].els : page.buttons[i].els[e] = "visible"

SessionTarget(page) == page.session = "works"

\* A registered framework instance or a well-known global whose method for
\* the direction can be invoked.
PlayerTarget(page, dir) ==
    /\ page.videojs.st # "throws"
    /\ \/ page.videojs.st = "object" /\ PlayerMethod(page.videojs, dir) = "ok"
       \/ page.global.st = "object" /\ PlayerMethod(page.global, dir) = "ok"

KeyTarget(page) == \E i \in DOMAIN page.keys : page.keys[i] = "ok"

\* The place in the fixed order of the first strategy that has a target, 0
\* if none has.
FirstWithTarget(page, dir) ==
    IF ButtonTarget(page) THEN 1
    ELSE IF SessionTarget(page) THEN 2
    ELSE IF PlayerTarget(page, dir) THEN 3
    ELSE IF KeyTarget(page) THEN 4
    ELSE 0

\* The strategy a result names.
StrategyOf(result) ==
    IF result.method \in {"player-api-next", "player-api-prev"} THEN "player-api"
    ELSE result.method

(* ------------------------------------------------------------------ *)
(* C15                                                                  *)
(* ------------------------------------------------------------------ *)

\* C15: skipTrack returns the result of the first strategy, in the order
\* button-click, media-session, player-API, keyboard-events, that has a
\* target on the page, and has entered exactly the strategies up to that
\* one; with no target anywhere it has entered all four and reports failure.
C15_FirstStrategyWins ==
    RanSkipTrack =>
        LET r == content.run
            first == FirstWithTarget(content.page, r.dir)
        IN /\ r.st = "returned"
           /\ first = 0 => ~r.result.success /\ r.tried = Strategies
           /\ first # 0 =>
                 /\ r.result.success
                 /\ StrategyOf(r.result) = Strategies[first]
                 /\ r.tried = SubSeq(Strategies, 1, first)

(* ------------------------------------------------------------------ *)
(* C16                                                                  *)
(* ------------------------------------------------------------------ *)

\* C16: on a page where the first selector of the list matches a visible
\* element, skipTrack clicks one element - the first visible match of that
\* selector - returns { success: true, method: 'button-click' }, and enters
\* no other strategy: no player method is called, no key event dispatched.
C16_TopSelectorClicked ==
    /\ RanSkipTrack
    /\ \E e \in DOMAIN content.page.buttons[1].els :
           content.page.buttons[1].els[e] = "visible"
    => LET r == content.run
           els == content.page.buttons[1].els
       IN /\ r.st = "returned"
          /\ r.result = Success("button-click")
          /\ Len(r.clicked) = 1
          /\ r.clicked[1][1] = 1
          /\ els[r.clicked[1][2]] = "visible"
          /\ \A e \in 1..(r.clicked[1][2] - 1) : els[e] = "hidden"
          /\ r.tried = <<"button-click">>
          /\ r.calls = <<>>
          /\ r.dispatched = {}

\* The first selector matched a hidden element and then a visible one on a
\* page that also has a working media session, a player and key targets:
\* the visible one was clicked and nothing else was tried.
C16_Witness ==
    /\ RanSkipTrack
    /\ content.page.buttons[1].els = <<"hidden", "visible">>
    /\ content.page.session = "works"
    /\ content.page.global.nextTrack = "ok"
    /\ content.page.keys[1] = "ok"
    /\ content.run.clicked = <<<<1, 2>>>>
    /\ content.run.result.method = "button-click"

(* ------------------------------------------------------------------ *)
(* C17                                                                  *)
(* ------------------------------------------------------------------ *)

\* C17: on a page where no selector matches a visible element, that has no
\* navigator.mediaSession and no player object, skipTrack calls
\* dispatchEvent on document, window and the focused element, all three,
\* and returns { success: true, method: 'keyboard-events' } exactly when one
\* of the three calls returned; otherwise it returns the failure result.
C17_KeyboardProbe ==
    /\ RanSkipTrack
    /\ ~ButtonTarget(content.page)
    /\ content.page.session = "absent"
    /\ content.page.videojs.st = "absent"
    /\ content.page.global.st = "absent"
    => LET r == content.run IN
       /\ r.st = "returned"
       /\ r.dispatched = DOMAIN KeyTargets
       /\ IF KeyTarget(content.page)
          THEN r.result = Success("keyboard-events")
          ELSE r.result = NotFound

(* ------------------------------------------------------------------ *)
(* C18                                                                  *)
(* ------------------------------------------------------------------ *)

\* C18: when no strategy has a target skipTrack returns success: false with
\* the error text and the four strategy names in order; and it returns
\* success: false only then, having entered all four strategies.
C18_FailureOnlyWhenExhausted ==
    RanSkipTrack =>
        LET r == content.run IN
        /\ FirstWithTarget(content.page, r.dir) = 0 =>
              /\ r.st = "returned"
              /\ r.result.success = FALSE
              /\ r.result.error = "No supported track skipping method found on this page"
              /\ r.result.methodsTried =
                    <<"button-click", "media-session", "player-api", "keyboard-events">>
        /\ r.st = "returned" /\ ~r.result.success =>
              /\ FirstWithTarget(content.page, r.dir) = 0
              /\ r.tried = Strategies

(* ------------------------------------------------------------------ *)
(* C19                                                                  *)
(* ------------------------------------------------------------------ *)

\* C19: skipTrack never throws: whatever throws inside a strategy, the run
\* ends by returning a result, a success or the failure result.
C19_NeverThrows ==
    RanSkipTrack =>
        /\ content.run.st = "returned"
        /\ \/ content.run.result.success
           \/ content.run.result = NotFound

(* ------------------------------------------------------------------ *)
(* C20                                                                  *)
(* ------------------------------------------------------------------ *)

\* C20: the promise a command handler returns is never rejected; the catch
\* of a handler, reached when a host call fails, resolves it with a failure
\* descriptor (or, for skip_track, with the success of its fallback).
C20_CommandsResolve ==
    /\ last.res # "rejected"
    /\ last.op \in {"toggle_play_pause.catch", "toggle_mute.catch"} =>
          last.res = "failure"
    /\ last.op = "skip_track.catch" => last.res \in {"failure", "success"}

(* ------------------------------------------------------------------ *)
(* What the consistency and ordering claims speak of                    *)
(* ------------------------------------------------------------------ *)

\* No command is suspended on a host call and no tab enumeration is pending.
\* (Host events are handled in the step in which the host raises them.)
Quiescent ==
    /\ \A c \in DOMAIN cmds : cmds[c] = IdleCmd
    /\ scans = {}

HostOps == {"tabs.onCreated", "tabs.onUpdated", "tabs.onRemoved"}

(* ------------------------------------------------------------------ *)
(* C22                                                                  *)
(* ------------------------------------------------------------------ *)

\* C22: in every quiescent state each record's audible flag is the audible
\* flag the host reports for its tab and its muted flag is the host's.
C22_ConsistentWhenQuiescent ==
    Quiescent =>
        \A i \in DOMAIN audibleTabsMap :
            LET t == audibleTabsMap[i].key
                rec == audibleTabsMap[i].val
            IN /\ rec.audible = JsBool(host[t].audible)
               /\ rec.muted = JsBool(host[t].muted)

(* ------------------------------------------------------------------ *)
(* C23                                                                  *)
(* ------------------------------------------------------------------ *)

\* C23: the listener of a tab event runs to its end in one step: when it
\* changed the map it has, in that step, posted to every popup still
\* connected, and the message it built lists the map exactly as the step
\* leaves it (after the eviction its icon refresh performs), so the pushes
\* of successive events follow the order of the mutations.
C23_EventMutatesThenPushes ==
    [][last'.op \in HostOps =>
          /\ audibleTabsMap' # audibleTabsMap =>
                /\ last'.posted = popupPorts'
                /\ popupPorts # {} => last'.msg = PushTabs(audibleTabsMap')
          /\ last'.posted # {} => last'.msg = PushTabs(audibleTabsMap')
          /\ last'.posted = {} /\ last'.threw = {} /\ popupPorts # {} =>
                audibleTabsMap' = audibleTabsMap
      ]_vars

\* The page of a tab whose record had outlived the window retitled itself
\* while a popup was connected: the listener wrote the title, its icon
\* refresh evicted the record, and the popup was posted the list without it.
C23_Witness ==
    /\ last.op = "tabs.onUpdated"
    /\ last.res = "meta"
    /\ last.posted # {}
    /\ last.msg = <<>>
    /\ host[last.tab].st = "open"
    /\ audibleTabsMap = <<>>

(* ------------------------------------------------------------------ *)
(* C27                                                                  *)
(* ------------------------------------------------------------------ *)

\* C27: the reply of get_media_tabs lists the records a push built in the
\* same state of the map lists, with the same values: the same ids in the
\* same order, and for each the audible flag and the playing flag of the
\* pushed entry.
C27_ReplyEqualsSnapshot ==
    [][last'.op = "get_media_tabs" =>
          LET pushed == PushTabs(audibleTabsMap') IN
          /\ Len(last'.msg) = Len(pushed)
          /\ \A i \in DOMAIN last'.msg :
                /\ last'.msg[i].id = pushed[i].rec.id
                /\ last'.msg[i].title = pushed[i].rec.title
                /\ last'.msg[i].muted = pushed[i].rec.muted
                /\ last'.msg[i].audible = pushed[i].rec.audible
                /\ last'.msg[i].isPlaying = pushed[i].isPlaying
      ]_vars

(* ------------------------------------------------------------------ *)
(* C28                                                                  *)
(* ------------------------------------------------------------------ *)

MuteOps ==
    {"toggle_mute", "toggle_mute.get", "toggle_mute.update", "toggle_mute.then",
     "toggle_mute.catch"}

\* C28: toggle_mute asks the host for the negation of the muted flag it
\* read; the host then has that flag; the answer carries it, and a record
\* of the tab, if there is one, has it as its muted field and is pushed to
\* every popup still connected. When a host call fails the answer is a
\* failure, and that step, like the steps of the command before it, leaves
\* the map as it was and posts nothing.
C28_ToggleMute ==
    [][\A c \in DOMAIN cmds :
          LET t == cmds[c].tab IN
          /\ At(c, "toggle_mute", "tabs.get") /\ cmds'[c].pc = "tabs.update" =>
                /\ cmds'[c].arg = ~host[t].muted
                /\ audibleTabsMap' = audibleTabsMap
                /\ last'.posted = {}
          /\ At(c, "toggle_mute", "tabs.update") /\ cmds'[c].pc = "then" =>
                host'[t].muted = cmds[c].arg
          /\ At(c, "toggle_mute", "then") /\ cmds'[c] = IdleCmd =>
                /\ last'.op = "toggle_mute.then"
                /\ last'.res = JsBool(cmds[c].arg)
                /\ MapHas(audibleTabsMap, t) =>
                      /\ MapHas(audibleTabsMap', t)
                      /\ MapGet(audibleTabsMap', t).muted = JsBool(cmds[c].arg)
                      /\ last'.posted = popupPorts'
                      /\ popupPorts # {} => last'.msg = PushTabs(audibleTabsMap')
                /\ ~MapHas(audibleTabsMap, t) =>
                      audibleTabsMap' = audibleTabsMap /\ last'.posted = {}
          /\ cmds[c].kind = "toggle_mute" /\ cmds[c].pc \in {"tabs.get", "tabs.update"}
             /\ cmds'[c] = IdleCmd =>
                /\ last'.op = "toggle_mute.catch"
                /\ last'.res = "failure"
                /\ audibleTabsMap' = audibleTabsMap
                /\ last'.posted = {}
                /\ host' = host
      ]_vars

\* The user unmuted the tab after the host had applied the command's
\* tabs.update and before its continuation ran: the continuation wrote the
\* command's value into the record and pushed it.
C28_Witness ==
    /\ last.op = "toggle_mute.then"
    /\ last.res = "true"
    /\ last.posted # {}
    /\ MapHas(audibleTabsMap, last.tab)
    /\ MapGet(audibleTabsMap, last.tab).muted = "true"
    /\ ~host[last.tab].muted

(* ------------------------------------------------------------------ *)
(* C25                                                                  *)
(* ------------------------------------------------------------------ *)

\* A media element after the toggle script has run on the page: a playing
\* element was paused, an element paused part-way was played, and if there
\* was none of either the first element was played.
AfterToggle(media) ==
    [i \in DOMAIN media |->
        IF media[i] = "playing" THEN "pausedMid"
        ELSE IF media[i] = "pausedMid" THEN "playing"
        ELSE IF i = 1 /\ \A j \in DOMAIN media : media[j] = "pausedStart"
             THEN "playing"
        ELSE media[i]]

PlayingAfterToggle(media) ==
    \E i \in DOMAIN media : AfterToggle(media)[i] = "playing"

\* C25: the isPlaying that toggle_play_pause answers is whether the page
\* plays after the toggle, the audible flag it writes into the record of
\* the tab is that value, and on a page with no media element it does not
\* mark the record as playing.
C25_AnswersPlayingState ==
    [][last'.op = "toggle_play_pause.then" =>
          LET t == last'.tab
              playing == PlayingAfterToggle(last'.media)
          IN /\ last'.res = JsBool(playing)
             /\ MapHas(audibleTabsMap', t) /\ MapHas(audibleTabsMap, t) =>
                   /\ MapGet(audibleTabsMap', t).audible = JsBool(playing)
                   /\ last'.media = <<>> =>
                         MapGet(audibleTabsMap', t).audible # "true"
      ]_vars

(* ------------------------------------------------------------------ *)
(* C26                                                                  *)
(* ------------------------------------------------------------------ *)

\* C26: toggle_play_pause is served by the last block of the listener that
\* tests for it: the answer is the one that block computes, and, as that
\* block does, the continuation writes nothing to the map and posts nothing.
C26_LastDefinitionServes ==
    [][last'.op = "toggle_play_pause.then" =>
          /\ last'.res = JsBool(LaterScriptIsPlaying(last'.media))
          /\ audibleTabsMap' = audibleTabsMap
          /\ last'.posted = {}
      ]_vars

(* ------------------------------------------------------------------ *)
(* C29                                                                  *)
(* ------------------------------------------------------------------ *)

\* Selectors written for one site's player, and the generic title and
\* aria-label patterns.
PlatformSelectors ==
    {".ytp-next-button", ".ytp-next-arrow", ".video-next-button",
     ".spoticon-skip-forward", ".skip-control__next", ".player-controls__next",
     ".ytp-prev-button", ".ytp-prev-arrow", ".video-prev-button",
     ".spoticon-skip-back", ".skip-control__previous",
     ".player-controls__previous"}

AttributeSelectors ==
    {"button[title*=\"next\" i]", "button[aria-label*=\"next\" i]",
     "button[title*=\"previous\" i]", "button[aria-label*=\"previous\" i]"}

\* The page has a visible element for a selector of the set, among those
\* the list of the direction holds.
VisibleFor(page, dir, selectors) ==
    \E k \in DOMAIN buttonSelectors(dir) :
        /\ buttonSelectors(dir)[k] \in selectors
        /\ LET q == querySelectorAll(page, buttonSelectors(dir)[k]) IN
           \E e \in DOMAIN q.els : q.els[e] = "visible"

\* C29: on a page with a visible platform-specific button and a visible
\* button matching a generic title / aria-label pattern, skipTrack clicks
\* exactly one element, and it is the one the platform-specific selector
\* matched.
C29_PlatformSelectorsFirst ==
    /\ RanSkipTrack
    /\ VisibleFor(content.page, content.run.dir, PlatformSelectors)
    /\ VisibleFor(content.page, content.run.dir, AttributeSelectors)
    => LET r == content.run IN
       /\ r.st = "returned"
       /\ Len(r.clicked) = 1
       /\ buttonSelectors(r.dir)[r.clicked[1][1]] \in PlatformSelectors

(* ------------------------------------------------------------------ *)
(* C30                                                                  *)
(* ------------------------------------------------------------------ *)

PreviousValues == {"prev", "previous"}

\* C30: asked for the previous track, as 'previous' or as 'prev', on a page
\* with a visible previous-track button, skipTrack clicks an element that a
\* previous-track selector matched and returns { success: true, method:
\* 'button-click' }; so does the button loop of the content script's own
\* skipTrack.
C30_PreviousLikeNext ==
    /\ /\ RanSkipTrack
       /\ content.run.dir \in PreviousValues
       /\ ButtonTarget(content.page)
       => LET r == content.run IN
          /\ r.st = "returned"
          /\ r.result = Success("button-click")
          /\ Len(r.clicked) = 1
          /\ \E k \in DOMAIN PreviousSelectors :
                PreviousSelectors[k] = buttonSelectors(r.dir)[r.clicked[1][1]]
    /\ /\ content.loop # NoLoop
       /\ content.loop.dir \in PreviousValues
       /\ ButtonTarget(content.page)
       => /\ content.loop.outcome = "found"
          /\ Len(content.loop.clicked) = 1

(* ------------------------------------------------------------------ *)
(* C21                                                                  *)
(* ------------------------------------------------------------------ *)

\* The command waits for an answer from the page of its tab.
AwaitsPage(c) == cmds[c].pc \in {"executeScript", "sendMessage"}

\* C21: a command that waits for the page of its tab is answered in the
\* end, whether or not the page ever answers.
C21_PageRequestsTimeOut ==
    \A c \in 1..MaxCmds : AwaitsPage(c) ~> (cmds[c] = IdleCmd)

(* ------------------------------------------------------------------ *)
(* C24                                                                  *)
(* ------------------------------------------------------------------ *)

\* The tab a step of command slot c is for.
TabOfStep(c) == IF cmds[c].tab # "" THEN cmds[c].tab ELSE cmds'[c].tab

NoButtonMatches(page) ==
    /\ \A i \in DOMAIN page.buttons : page.buttons[i].query = "ok"
    /\ ~ButtonTarget(page)

\* C31: when no button matches and the media-session probe finds nothing,
\* a well-known global player object that has the method for the direction
\* (previousTrack for a previous request, whether or not it has nextTrack
\* too; nextTrack for a next request) has that method invoked, and skipTrack
\* returns { success: true, method: 'player-api-prev' }, for next
\* 'player-api-next'.
C31_GlobalPlayerInvoked ==
    /\ RanSkipTrack
    /\ NoButtonMatches(content.page)
    /\ ~SessionTarget(content.page)
    /\ content.page.videojs.st = "absent"
    /\ content.page.global.st = "object"
    /\ PlayerMethod(content.page.global, content.run.dir) = "ok"
    => /\ content.run.st = "returned"
       /\ content.run.calls = <<"ok">>
       /\ content.run.result =
             Success(IF content.run.dir = "next" THEN "player-api-next"
                     ELSE "player-api-prev")

(* ------------------------------------------------------------------ *)
(* C32                                                                  *)
(* ------------------------------------------------------------------ *)

InList(list, id) == \E k \in DOMAIN list : list[k] = id

\* A call of getAllMediaTabs has returned the list of a scan it made.
ScanReturned == scanner.pc = "returned" /\ scanner.from = "scan"

\* A failed or abandoned probe aborts nothing and drops nothing: every
\* probed tab that has media is in the returned list once, whatever the
\* other tabs of its batch or of earlier batches did, and nothing else is.
SettledAndContinued ==
    /\ \A id \in DOMAIN scanner.tabs :
          LET tab == scanner.tabs[id] IN
          /\ tab.web /\ ~tab.audible /\ tab.probe = "media"
                => InList(scanner.result, id)
          /\ ~tab.audible /\ tab.probe # "media" => ~InList(scanner.result, id)
    /\ \A j, k \in DOMAIN scanner.result :
          j < k => scanner.result[j] < scanner.result[k]
    /\ scanner.globalMediaTabs = scanner.result

C33_ButtonsRecover ==
    \A b \in Buttons : popup.btn[b].disabled ~> ~popup.btn[b].disabled

(* ------------------------------------------------------------------ *)
(* C34                                                                  *)
(* ------------------------------------------------------------------ *)

\* The tab has a record that is not audible and that is not within the
\* retention window after its lastActive.
SilentAndDue(t) ==
    /\ MapHas(audibleTabsMap, t)
    /\ ~Listed(MapGet(audibleTabsMap, t), now)

\* C34: while the periodic timer keeps firing, a record that is not audible
\* and whose retention window is over is eventually removed, unless the tab
\* is reported audible or its lastActive is renewed first: no record stays
\* in the cache for ever while its tab is silent.
C34_SilentRecordsEvicted ==
    \A t \in Tabs : SilentAndDue(t) ~> ~SilentAndDue(t)

(* ------------------------------------------------------------------ *)
(* C35                                                                  *)
(* ------------------------------------------------------------------ *)

JsBooleans == {"true", "false"}

\* C35: every record stored in the map under key k has id = k, a boolean
\* audible, a boolean muted and a lastActive that was written, the records
\* of the skip_track success path included.
C35_RecordsWellFormed ==
    \A i \in DOMAIN audibleTabsMap :
        LET rec == audibleTabsMap[i].val IN
        /\ rec.id = audibleTabsMap[i].key
        /\ rec.audible \in JsBooleans
        /\ rec.muted \in JsBooleans
        /\ rec.lastActive # NoTime

(* ------------------------------------------------------------------ *)
(* C36                                                                  *)
(* ------------------------------------------------------------------ *)

\* C36: once the tabs.onRemoved listener has run for a tab, the map holds
\* no record for it in any later state, also when a command for the tab or
\* a tab enumeration was suspended on a host call while the tab was closed
\* and resumes afterwards.
C36_ClosedTabsStayOut ==
    \A t \in Tabs : host[t].st = "closed" => ~MapHas(audibleTabsMap, t)

\* A skip_track command for a tab that had been heard has just ended after
\* the tab was closed under it: its tabs.get was rejected or its last
\* message settled, and the tab has no record.
C36_Witness ==
    /\ last.op = "skip_track.done"
    /\ host[last.tab].st = "closed"
    /\ last.tab \in everAudible
    /\ ~MapHas(audibleTabsMap, last.tab)
    /\ scans = {}

(* ------------------------------------------------------------------ *)
(* C37                                                                  *)
(* ------------------------------------------------------------------ *)

\* The command's tabs.get and tabs.update have both resolved; its answer,
\* isMuted: arg, is settled.
Toggled(c) == At(c, "toggle_mute", "then")

\* C37: when two toggle_mute commands for the same tab have both had their
\* host calls resolve, in whatever order those calls interleaved, the flag
\* has been flipped twice and is back at its initial value, and each
\* command answers with the value its own flip produced: so one of them
\* answers muted and the other unmuted, and the flag is what the later of
\* the two updates set.
C37_TwoTogglesCancel ==
    \A c, d \in Slots :
        c # d /\ Toggled(c) /\ Toggled(d) /\ cmds[c].tab = cmds[d].tab
        => /\ cmds[c].arg # cmds[d].arg
           /\ host[cmds[c].tab].muted \in {cmds[c].arg, cmds[d].arg}

(* ------------------------------------------------------------------ *)
(* C38                                                                  *)
(* ------------------------------------------------------------------ *)

\* C38: a strategy that does not succeed leaves the page as it was: when
\* skipTrack has returned a result that is not the media-session
\* strategy's, the media session still holds the page's own nexttrack /
\* previoustrack handler, also when the probe's dispatch threw.
C38_FailedProbeLeavesHandler ==
    /\ RanSkipTrack
    /\ content.run.st = "returned"
    /\ content.run.result.method # "media-session"
    => HandlerAfter(content.page, content.run) = "page"

(* ------------------------------------------------------------------ *)
(* C39                                                                  *)
(* ------------------------------------------------------------------ *)

\* The step carries a report of the host about the tab: the tab was
\* created, changed its audible state or was closed, or an enumeration
\* of the open tabs resolved.
ReportsOn(t) ==
    \/ host'[t].st # host[t].st
    \/ host'[t].audible # host[t].audible
    \/ last'.op \in {"init", "onStartup"} /\ host[t].st = "open"

\* C39: in the cache without retention every record has audible = true
\* after every step; a report of a tab as silent or closed removes its
\* record, a report of it as audible stores one, and nothing else adds or
\* removes a record, so the reply to get_media_tabs, which calls every
\* entry audible, lists exactly the tabs last reported audible and not
\* closed.
C39_LegacyRecordsAudible ==
    [][/\ \A i \in DOMAIN audibleTabsMap' :
             /\ audibleTabsMap'[i].val.audible = "true"
             /\ audibleTabsMap'[i].val.id = audibleTabsMap'[i].key
       /\ \A t \in Tabs :
             MapHas(audibleTabsMap', t) <=>
                IF ReportsOn(t)
                THEN host'[t].st = "open" /\ host'[t].audible
                ELSE MapHas(audibleTabsMap, t)
       /\ last'.op = "get_media_tabs" =>
             /\ Len(last'.msg) = Len(audibleTabsMap)
             /\ \A i \in DOMAIN last'.msg :
                   /\ last'.msg[i].id = audibleTabsMap[i].key
                   /\ last'.msg[i].audible = "true"
                   /\ host[last'.msg[i].id].st = "open"
      ]_vars

\* A tab that had a record was reported silent: the upsert answered
\* 'removed', the record is gone though the tab is still open, and the
\* other tab's record is the only one left.
C39_Witness ==
    /\ last.op = "tabs.onUpdated"
    /\ last.res = "removed"
    /\ host[last.tab].st = "open"
    /\ ~MapHas(audibleTabsMap, last.tab)
    /\ Len(audibleTabsMap) = 1
    /\ Len(last.msg) = 1

(* ------------------------------------------------------------------ *)
(* C40                                                                  *)
(* ------------------------------------------------------------------ *)

\* The step is the tabs.onUpdated listener running for an event of the tab
\* that carries no audible change.
MetaEvent(t) ==
    /\ last'.op = "tabs.onUpdated"
    /\ last'.tab = t
    /\ host[t].st = "open" /\ host'[t].st = "open"
    /\ host'[t].audible = host[t].audible

\* The handler refreshed no icon and posted nothing.
NoPush(l) == l.icon = NoIcon /\ l.posted = {} /\ l.threw = {} /\ l.msg = <<>>

\* The handler refreshed the icon and posted the map to every port.
Pushed(l) ==
    /\ l.icon # NoIcon
    /\ l.posted \cup l.threw = popupPorts
    /\ l.msg = PushMessage(audibleTabsMap', popupPorts)

\* The two records differ in title, url and muted at most.
SameButMeta(old, new) ==
    /\ new.id = old.id
    /\ new.audible = old.audible
    /\ new.lastActive = old.lastActive

\* Entry by entry, after is before with nothing changed but the title, url
\* and muted of the tab's own record.
OnlyMetaOf(t, before, after) ==
    /\ Len(after) = Len(before)
    /\ \A i \in DOMAIN after :
          /\ after[i].key = before[i].key
          /\ after[i].key # t => after[i] = before[i]
          /\ after[i].key = t => SameButMeta(before[i].val, after[i].val)

\* C40: a tab-updated event without an audible change leaves the map as it
\* is and pushes nothing when the tab has no record; when it has one, the
\* event changes only that record's title, url and muted, and it pushes a
\* snapshot if and only if the record changed.
C40_MetaEventChangesMetaOnly ==
    [][\A t \in Tabs :
          MetaEvent(t) =>
             IF ~MapHas(audibleTabsMap, t)
             THEN audibleTabsMap' = audibleTabsMap /\ NoPush(last')
             ELSE /\ OnlyMetaOf(t, audibleTabsMap, audibleTabsMap')
                  /\ IF audibleTabsMap' # audibleTabsMap
                     THEN Pushed(last') ELSE NoPush(last')
      ]_vars

\* C40 as the code has it: when the record changed, the icon refresh that
\* goes with the push also evicts every record that is silent and past its
\* window, the tab's own included; what is left is as the claim says.
C40_MetaEventThenEviction ==
    [][\A t \in Tabs :
          MetaEvent(t) =>
             IF ~MapHas(audibleTabsMap, t)
             THEN audibleTabsMap' = audibleTabsMap /\ NoPush(last')
             ELSE IF NoPush(last')
             THEN audibleTabsMap' = audibleTabsMap
             ELSE /\ Pushed(last')
                  /\ OnlyMetaOf(t, cleanupOldTabs(audibleTabsMap, now),
                                audibleTabsMap')
                  /\ MapHas(audibleTabsMap', t) =>
                        MapGet(audibleTabsMap', t) # MapGet(audibleTabsMap, t)
      ]_vars

\* The page of a cached tab has changed its title at a later time than
\* the record was stamped: the record carries the new title and its old
\* lastActive, and the popup was sent the list.
C40_Witness ==
    /\ last.op = "tabs.onUpdated"
    /\ last.res = "meta"
    /\ MapHas(audibleTabsMap, last.tab)
    /\ MapGet(audibleTabsMap, last.tab).title = "Song A"
    /\ host[last.tab].title = "Song A"
    /\ MapGet(audibleTabsMap, last.tab).lastActive # NoTime
    /\ MapGet(audibleTabsMap, last.tab).lastActive < now
    /\ last.posted # {}
    /\ Len(last.msg) = 1

====
